---- MODULE Spec2Model ----
(***************************************************************************)
(* Model of the data-availability core of hyle (src/data_availability.rs): *)
(* the block acceptance pipeline (handle_signed_block, pop_buffer,         *)
(* add_processed_block) and the event loop of DataAvailability::start      *)
(* that drives it.                                                         *)
(***************************************************************************)
EXTENDS Integers, Sequences, FiniteSets, TLC

\* ------------------------------------------------------------------------
\* Bounds of the model
\* ------------------------------------------------------------------------

\* Number of blocks of the linear chain B0 .. B(ChainLen-1).
ChainLen == 3

\* Largest number of I/O faults (a failing store.put, a failing peer send)
\* the environment injects into one step of the event loop.
MaxFaults == 1

\* Largest value of the clock (seconds).
MaxNow == 301

\* Capacity of the bounded channels of the event loop in the model.
ChannelCap == 1

\* ------------------------------------------------------------------------
\* Program constants
\* ------------------------------------------------------------------------

\* Keep-alive timeout of a stream peer: 60 * 5 seconds.
PingTimeout == 300

\* ------------------------------------------------------------------------
\* Blocks.  A SignedBlock is seen by the DA core through hash(),
\* parent_hash() and height() only.  The hash is a content hash, so every
\* hash names exactly one block.
\* ------------------------------------------------------------------------

\* catchup_height: None.
NoHeight == -1

\* Hash that names no block (parent_hash of SignedBlock::default()).
NoHash == 0

\* Hash that names a block the node never receives.
UnknownHash == 200

\* The i-th block of the chain built as in the tests: parent_hash is the
\* hash of the previous block, the height (slot) is the index.
ChainBlock(i) == [hash |-> i + 1, parent_hash |-> i, height |-> i]

Chain == {ChainBlock(i) : i \in 0 .. ChainLen - 1}

\* A block competing with ChainBlock(1): same parent, same height.
ForkBlock == [hash |-> 101, parent_hash |-> 1, height |-> 1]

\* A child of the genesis block whose height is not its parent's height + 1.
SkipBlock == [hash |-> 102, parent_hash |-> 1, height |-> 2]

\* A block of height 1 whose parent is never received.
OrphanBlock == [hash |-> 103, parent_hash |-> UnknownHash, height |-> 1]

\* A block of height 0 whose parent hash is not the default one.
AltGenesis == [hash |-> 104, parent_hash |-> UnknownHash, height |-> 0]

Universe == Chain \cup {ForkBlock, SkipBlock, OrphanBlock, AltGenesis}

\* Addresses of the stream peers.
Peers == {"p1"}

\* I/O faults the environment can inject.
PutFault(b) == <<"put", b.hash>>
SendFault(p, b) == <<"send", p, b.hash>>

\* Blocks a GenesisEvent::GenesisBlock can carry.
GenesisBlocks == {b \in Universe : b.height = 0}

VARIABLES
    blocks,                  \* self.blocks: the block store
    buffered_signed_blocks,  \* self.buffered_signed_blocks: the reorder buffer
    stream_peer_metadata,    \* peer address -> [last_ping]
    need_catchup,
    catchup_task,            \* "None", or Some(handle) of a task "Running" or "Stopped"
    catchup_height,          \* NoHeight (None) or Some(target height)
    catchup_block_channel,   \* blocks sent by the catch-up task, not yet received
    catchup_channel,         \* (block_hashes, peer_ip) messages of the historical sends
    loop,                    \* "running" | "returned" | "blocked": DataAvailability::start
    now,                     \* get_current_timestamp()
    emitted,                 \* DataEvent::OrderedSignedBlock sent on the bus, in order
    effects,                 \* the effects of the last step, in order
    last_event,              \* the event the last step handled
    put_failed,              \* some store.put has failed so far
    delivered,               \* the blocks handle_signed_block was called with so far
    streamed,                \* some block was received from the catch-up stream so far
    pending_stream_requests, \* peer address -> state of the task reading the first frame
    keepalive,               \* peer address -> state of the running keep-alive task
    ping_channel,            \* peer addresses sent by the keep-alive tasks, not yet received
    stream_log,              \* peer address -> what was sent on its connection so far
    modules_handler,         \* ModulesHandler: the spawned tasks and the wait_for_first future
    disk,                    \* path -> the bytes of the file at that path
    save_calls,              \* caller -> the position of its save_on_disk call
    loaded,                  \* what the last load_from_disk_or_default returned
    db,                      \* Indexer: the committed rows of the database
    subscribers,             \* Indexer: the contract names with websocket subscribers
    ws_sent                  \* Indexer: the transactions sent to subscribers so far

\* The state of utils/modules.rs.
ModuleVars == <<modules_handler, disk, save_calls, loaded>>

\* The state of indexer.rs.
IndexerVars == <<db, subscribers, ws_sent>>

vars == <<blocks, buffered_signed_blocks, stream_peer_metadata, need_catchup,
          catchup_task, catchup_height, catchup_block_channel, catchup_channel,
          loop, now, emitted, effects, last_event, put_failed, delivered,
          streamed, pending_stream_requests, keepalive, ping_channel,
          stream_log, modules_handler, disk, save_calls, loaded,
          db, subscribers, ws_sent>>

\* The state of DataAvailability other than the event of the last step.
DataAvailabilityVars ==
    <<blocks, buffered_signed_blocks, stream_peer_metadata, need_catchup,
      catchup_task, catchup_height, catchup_block_channel, catchup_channel,
      loop, now, emitted, effects, put_failed, delivered, streamed,
      pending_stream_requests, keepalive, ping_channel, stream_log>>

\* ------------------------------------------------------------------------
\* utils/modules.rs: the saved state of a module (TestStruct { value: u32 })
\* ------------------------------------------------------------------------

\* The most modules a ModulesHandler is started with.
MaxModules == 2

\* The most transactions in a block handed to the indexer.
MaxTxs == 2

\* The concurrent callers of save_on_disk.
Callers == {"c1", "c2"}

\* The salts of the temporary files; a salt names its temporary file.
Salts == {"a", "b"}

\* The file the state is saved to and loaded from.
File == "file"

\* TestStruct::default().value
Default == 0

\* The first byte of a varint that holds a u16 / a u32 in the bytes after it
\* (bincode::config::standard()).
U16_BYTE == 251
U32_BYTE == 252

\* The values of TestStruct.value the callers save.
Values == {Default, 42, U16_BYTE, 65536}

\* File contents no save has written: an empty file, a varint cut short
\* and a first byte that announces a wider integer than u32.
Garbage == {<<>>, <<U16_BYTE, 1>>, <<U32_BYTE + 1, 0, 0>>}

\* The little-endian bytes of value, n of them.
RECURSIVE le_bytes(_, _)
le_bytes(value, n) ==
    IF n = 0 THEN <<>>
    ELSE <<value % 256>> \o le_bytes(value \div 256, n - 1)

\* The value of little-endian bytes.
RECURSIVE from_le_bytes(_)
from_le_bytes(bytes) ==
    IF bytes = <<>> THEN 0
    ELSE bytes[1] + 256 * from_le_bytes(Tail(bytes))

\* An encoder that writes the low byte of the value only.
encode_low_byte(store) == <<store % 256>>

\* bincode::encode_into_std_write(store, .., standard()): the varint of value
encode(store) ==
    IF store < U16_BYTE THEN <<store>>
    ELSE IF store < 65536 THEN <<U16_BYTE>> \o le_bytes(store, 2)
    ELSE <<U32_BYTE>> \o le_bytes(store, 4)

\* bincode::decode_from_std_read(.., standard()) of a u32: bytes after the
\* value are not read.
decode(bytes) ==
    IF bytes = <<>> THEN [ok |-> FALSE, value |-> Default]
    ELSE IF bytes[1] < U16_BYTE THEN [ok |-> TRUE, value |-> bytes[1]]
    ELSE IF bytes[1] = U16_BYTE /\ Len(bytes) >= 3
         THEN [ok |-> TRUE, value |-> from_le_bytes(SubSeq(bytes, 2, 3))]
    ELSE IF bytes[1] = U32_BYTE /\ Len(bytes) >= 5
         THEN [ok |-> TRUE, value |-> from_le_bytes(SubSeq(bytes, 2, 5))]
    ELSE [ok |-> FALSE, value |-> Default]

\* Module::load_from_disk_or_default(file) on the files of d
load_from_disk_or_default(d, file) ==
    IF file \notin DOMAIN d THEN [source |-> "default", value |-> Default]
    ELSE IF decode(d[file]).ok
         THEN [source |-> "file", value |-> decode(d[file]).value]
    ELSE [source |-> "default", value |-> Default]

\* A caller that is not inside save_on_disk.
IdleCall == [pc |-> "idle", store |-> Default, tmp |-> "", result |-> "none"]

\* ------------------------------------------------------------------------
\* Block store (Blocks): point queries and last()
\* ------------------------------------------------------------------------

contains(store, hash) == \E b \in store : b.hash = hash

is_empty(store) == store = {}

\* last(): the stored block of maximum height.
last(store) == CHOOSE b \in store : \A c \in store : c.height <= b.height

\* A put that keeps the stored block when the height is already taken.
put_unless_height_taken(store, block) ==
    IF \E b \in store : b.height = block.height
    THEN store
    ELSE store \cup {block}

\* put(block) that succeeds.
put(store, block) == store \cup {block}

\* get(hash) of a stored hash.
get(store, hash) == CHOOSE b \in store : b.hash = hash

\* ------------------------------------------------------------------------
\* Reorder buffer: BTreeSet<SignedBlock>, ordered by (height, hash)
\* ------------------------------------------------------------------------

BlockLess(a, b) ==
    \/ a.height < b.height
    \/ a.height = b.height /\ a.hash < b.hash

\* BTreeSet::first()
first(buffer) == CHOOSE b \in buffer : \A c \in buffer : c = b \/ BlockLess(b, c)

\* The blocks of a set in ascending order.
RECURSIVE Ascending(_)
Ascending(S) ==
    IF S = {} THEN <<>> ELSE <<first(S)>> \o Ascending(S \ {first(S)})

\* range(from, to): the stored blocks of height in [from, to), ascending.
range(store, from, to) ==
    Ascending({b \in store : from <= b.height /\ b.height < to})

\* The hashes left in ascending order (no reverse() before the pops).
Reverse_left_out(s) == s

Reverse(s) == [i \in 1 .. Len(s) |-> s[Len(s) + 1 - i]]

\* ------------------------------------------------------------------------
\* The acceptance pipeline works on the part of the state it owns.
\* ------------------------------------------------------------------------

DAState ==
    [blocks |-> blocks,
     buffered |-> buffered_signed_blocks,
     peers |-> stream_peer_metadata,
     emitted |-> emitted,
     effects |-> <<>>,
     put_failed |-> put_failed,
     keepalive |-> keepalive,
     log |-> stream_log]

\* Peers whose last ping is older than the timeout.
TimedOut(peers) == {p \in DOMAIN peers : peers[p].last_ping + PingTimeout < now}

\* add_processed_block that logs a failed put and goes on (no `return`).
add_processed_block_no_return(st, block, F) ==
    LET timed_out == TimedOut(st.peers)
        tried == DOMAIN st.peers \ timed_out
        failed == {p \in tried : SendFault(p, block) \in F}
        to_remove == timed_out \cup failed
    IN [st EXCEPT
          !.blocks = IF PutFault(block) \in F THEN @ ELSE put(@, block),
          !.put_failed = @ \/ PutFault(block) \in F,
          !.peers = [p \in DOMAIN st.peers \ to_remove |-> st.peers[p]],
          !.keepalive = [p \in DOMAIN st.keepalive \ to_remove |->
                            st.keepalive[p]],
          !.log = [p \in DOMAIN st.log |->
                      IF p \in tried \ failed
                      THEN [st.log[p] EXCEPT
                               !.sent = Append(@, [hash |-> block.hash,
                                                   phase |-> "live"])]
                      ELSE st.log[p]],
          !.emitted = Append(@, block),
          !.effects = @ \o <<[kind |-> IF PutFault(block) \in F
                                       THEN "put_failed" ELSE "put",
                              block |-> block],
                             [kind |-> "fanout", block |-> block,
                              sent |-> tried \ failed, failed |-> failed,
                              evicted |-> to_remove],
                             [kind |-> "emit", block |-> block]>>]

\* add_processed_block that stores and emits the block but sends it to no
\* stream peer.
add_processed_block_no_fan_out(st, block, F) ==
    IF PutFault(block) \in F
    THEN [st EXCEPT !.effects = Append(@, [kind |-> "put_failed", block |-> block]),
                    !.put_failed = TRUE]
    ELSE [st EXCEPT
            !.blocks = put(@, block),
            !.emitted = Append(@, block),
            !.effects = @ \o <<[kind |-> "put", block |-> block],
                               [kind |-> "fanout", block |-> block,
                                sent |-> {}, failed |-> {}, evicted |-> {}],
                               [kind |-> "emit", block |-> block]>>]

\* add_processed_block that evicts the peers that timed out only, not the
\* peers a send fails for.
add_processed_block_failed_send_kept(st, block, F) ==
    IF PutFault(block) \in F
    THEN [st EXCEPT !.effects = Append(@, [kind |-> "put_failed", block |-> block]),
                    !.put_failed = TRUE]
    ELSE LET timed_out == TimedOut(st.peers)
             tried == DOMAIN st.peers \ timed_out
             failed == {p \in tried : SendFault(p, block) \in F}
             to_remove == timed_out
         IN [st EXCEPT
               !.blocks = put(@, block),
               !.peers = [p \in DOMAIN st.peers \ to_remove |-> st.peers[p]],
               !.keepalive = [p \in DOMAIN st.keepalive \ to_remove |->
                                 st.keepalive[p]],
               !.log = [p \in DOMAIN st.log |->
                           IF p \in tried \ failed
                           THEN [st.log[p] EXCEPT
                                    !.sent = Append(@, [hash |-> block.hash,
                                                        phase |-> "live"])]
                           ELSE st.log[p]],
               !.emitted = Append(@, block),
               !.effects = @ \o <<[kind |-> "put", block |-> block],
                                  [kind |-> "fanout", block |-> block,
                                   sent |-> tried \ failed, failed |-> failed,
                                   evicted |-> to_remove],
                                  [kind |-> "emit", block |-> block]>>]

add_processed_block(st, block, F) ==
    IF PutFault(block) \in F
    THEN [st EXCEPT !.effects = Append(@, [kind |-> "put_failed", block |-> block]),
                    !.put_failed = TRUE]
    ELSE LET timed_out == TimedOut(st.peers)
             tried == DOMAIN st.peers \ timed_out
             failed == {p \in tried : SendFault(p, block) \in F}
             to_remove == timed_out \cup failed
         IN [st EXCEPT
               !.blocks = put(@, block),
               !.peers = [p \in DOMAIN st.peers \ to_remove |-> st.peers[p]],
               !.keepalive = [p \in DOMAIN st.keepalive \ to_remove |->
                                 st.keepalive[p]],
               !.log = [p \in DOMAIN st.log |->
                           IF p \in tried \ failed
                           THEN [st.log[p] EXCEPT
                                    !.sent = Append(@, [hash |-> block.hash,
                                                        phase |-> "live"])]
                           ELSE st.log[p]],
               !.emitted = Append(@, block),
               !.effects = @ \o <<[kind |-> "put", block |-> block],
                                  [kind |-> "fanout", block |-> block,
                                   sent |-> tried \ failed, failed |-> failed,
                              evicted |-> to_remove],
                                  [kind |-> "emit", block |-> block]>>]

\* pop_buffer that releases at most one buffered block (an `if` for the `while`).
pop_buffer_once(st, last_block_hash, F) ==
    IF st.buffered = {}
    THEN st
    ELSE LET first_buffered == first(st.buffered) IN
         IF first_buffered.parent_hash # last_block_hash
         THEN st
         ELSE add_processed_block(
                  [st EXCEPT !.buffered = @ \ {first_buffered}],
                  first_buffered, F)

RECURSIVE pop_buffer(_, _, _)
pop_buffer(st, last_block_hash, F) ==
    IF st.buffered = {}
    THEN st
    ELSE LET first_buffered == first(st.buffered) IN
         IF first_buffered.parent_hash # last_block_hash
         THEN st
         ELSE pop_buffer(
                  add_processed_block(
                      [st EXCEPT !.buffered = @ \ {first_buffered}],
                      first_buffered, F),
                  first_buffered.hash, F)

\* handle_signed_block without the check for an already stored block.
handle_signed_block_no_duplicate_check(st, block, F) ==
    IF ~is_empty(st.blocks) /\ ~contains(st.blocks, block.parent_hash)
    THEN [st EXCEPT !.buffered = @ \cup {block}]
    ELSE IF is_empty(st.blocks) /\ block.height # 0
    THEN [st EXCEPT !.buffered = @ \cup {block}]
    ELSE LET popped == pop_buffer(add_processed_block(st, block, F), block.hash, F)
         IN [popped EXCEPT !.effects = Append(@, [kind |-> "persist"])]

\* handle_signed_block that persists the store also when it drops a duplicate.
handle_signed_block_duplicate_persists(st, block, F) ==
    IF contains(st.blocks, block.hash)
    THEN [st EXCEPT !.effects = Append(@, [kind |-> "persist"])]
    ELSE IF ~is_empty(st.blocks) /\ ~contains(st.blocks, block.parent_hash)
    THEN [st EXCEPT !.buffered = @ \cup {block}]
    ELSE IF is_empty(st.blocks) /\ block.height # 0
    THEN [st EXCEPT !.buffered = @ \cup {block}]
    ELSE LET popped == pop_buffer(add_processed_block(st, block, F), block.hash, F)
         IN [popped EXCEPT !.effects = Append(@, [kind |-> "persist"])]

\* handle_signed_block that commits a block whose parent is not stored.
handle_signed_block_orphan_committed(st, block, F) ==
    IF contains(st.blocks, block.hash)
    THEN st
    ELSE IF is_empty(st.blocks) /\ block.height # 0
    THEN [st EXCEPT !.buffered = @ \cup {block}]
    ELSE LET popped == pop_buffer(add_processed_block(st, block, F), block.hash, F)
         IN [popped EXCEPT !.effects = Append(@, [kind |-> "persist"])]

\* handle_signed_block that recognises the genesis block by its parent hash.
handle_signed_block_genesis_by_parent(st, block, F) ==
    IF contains(st.blocks, block.hash)
    THEN st
    ELSE IF ~is_empty(st.blocks) /\ ~contains(st.blocks, block.parent_hash)
    THEN [st EXCEPT !.buffered = @ \cup {block}]
    ELSE IF is_empty(st.blocks) /\ block.parent_hash # NoHash
    THEN [st EXCEPT !.buffered = @ \cup {block}]
    ELSE LET popped == pop_buffer(add_processed_block(st, block, F), block.hash, F)
         IN [popped EXCEPT !.effects = Append(@, [kind |-> "persist"])]

handle_signed_block(st, block, F) ==
    IF contains(st.blocks, block.hash)
    THEN st
    ELSE IF ~is_empty(st.blocks) /\ ~contains(st.blocks, block.parent_hash)
    THEN [st EXCEPT !.buffered = @ \cup {block}]
    ELSE IF is_empty(st.blocks) /\ block.height # 0
    THEN [st EXCEPT !.buffered = @ \cup {block}]
    ELSE LET popped == pop_buffer(add_processed_block(st, block, F), block.hash, F)
         IN [popped EXCEPT !.effects = Append(@, [kind |-> "persist"])]

\* Writes the result of the pipeline back to the state.
Commit(st) ==
    /\ blocks' = st.blocks
    /\ buffered_signed_blocks' = st.buffered
    /\ stream_peer_metadata' = st.peers
    /\ emitted' = st.emitted
    /\ effects' = st.effects
    /\ put_failed' = st.put_failed
    /\ keepalive' = st.keepalive
    /\ stream_log' = st.log

\* ------------------------------------------------------------------------
\* The event loop (DataAvailability::start)
\* ------------------------------------------------------------------------

Init ==
    /\ blocks = {}
    /\ buffered_signed_blocks = {}
    /\ stream_peer_metadata = <<>>
    /\ need_catchup = FALSE
    /\ catchup_task = "None"
    /\ catchup_height = NoHeight
    /\ catchup_block_channel = <<>>
    /\ catchup_channel = <<>>
    /\ loop = "running"
    /\ now = 0
    /\ emitted = <<>>
    /\ effects = <<>>
    /\ last_event = [type |-> "Init"]
    /\ put_failed = FALSE
    /\ delivered = {}
    /\ pending_stream_requests = <<>>
    /\ keepalive = <<>>
    /\ ping_channel = <<>>
    /\ stream_log = <<>>
    /\ streamed = FALSE
    /\ modules_handler = [pc |-> "built", run |-> <<>>, tasks |-> <<>>,
                          handles |-> {}, result |-> "none", abort |-> "held"]
    /\ disk = <<>>
    /\ save_calls = [c \in Callers |-> IdleCall]
    /\ loaded = [source |-> "none", value |-> Default]
    /\ db = {}
    /\ subscribers = {}
    /\ ws_sent = {}

\* The blocks a step that handles `block` passes to add_processed_block:
\* the block itself and the buffered blocks the drain releases (the drain
\* does not look at the outcome of put).
Processed(block) ==
    LET e == handle_signed_block(DAState, block, {}).effects
    IN {e[i].block : i \in {j \in 1 .. Len(e) : e[j].kind = "put"}}

\* The faults that can show in a step that handles `block`: a failing put
\* or a failing send of a block the step processes.
FaultsOf(block) ==
    LET touched == Processed(block)
        faults == {PutFault(b) : b \in touched}
                  \cup {SendFault(p, b) : p \in DOMAIN stream_peer_metadata,
                                          b \in touched}
    IN {F \in SUBSET faults : Cardinality(F) <= MaxFaults}

\* listen<MempoolEvent>: MempoolEvent::BuiltSignedBlock(signed_block)
BuiltSignedBlock(block, F) ==
    /\ loop = "running"
    /\ Commit(handle_signed_block(DAState, block, F))
    /\ last_event' = [type |-> "BuiltSignedBlock", block |-> block]
    /\ delivered' = delivered \cup {block}
    /\ UNCHANGED <<streamed, ModuleVars, IndexerVars>>
    /\ UNCHANGED <<need_catchup, catchup_task, catchup_height,
                   catchup_block_channel, catchup_channel, loop, now,
                   pending_stream_requests, ping_channel>>

\* StartedBuildingBlocks that takes the height itself for the target.
StartedBuildingBlocks_target_is_height(height) ==
    /\ loop = "running"
    /\ catchup_height' = height
    /\ IF /\ catchup_task # "None"
          /\ (IF is_empty(blocks) THEN 0 ELSE last(blocks).height) >= height
       THEN /\ catchup_task' = "Stopped"
            /\ need_catchup' = FALSE
       ELSE UNCHANGED <<catchup_task, need_catchup>>
    /\ effects' = <<>>
    /\ last_event' = [type |-> "StartedBuildingBlocks", height |-> height]
    /\ UNCHANGED <<blocks, buffered_signed_blocks, stream_peer_metadata,
                   catchup_block_channel, catchup_channel, loop, now, emitted,
                   put_failed, delivered, streamed, ModuleVars, IndexerVars,
                   pending_stream_requests, keepalive, ping_channel, stream_log>>

\* listen<MempoolEvent>: MempoolEvent::StartedBuildingBlocks(height)
StartedBuildingBlocks(height) ==
    /\ loop = "running"
    /\ catchup_height' = height - 1
    /\ IF /\ catchup_task # "None"
          /\ (IF is_empty(blocks) THEN 0 ELSE last(blocks).height) >= height
       THEN /\ catchup_task' = "Stopped"
            /\ need_catchup' = FALSE
       ELSE UNCHANGED <<catchup_task, need_catchup>>
    /\ effects' = <<>>
    /\ last_event' = [type |-> "StartedBuildingBlocks", height |-> height]
    /\ UNCHANGED <<blocks, buffered_signed_blocks, stream_peer_metadata,
                   catchup_block_channel, catchup_channel, loop, now, emitted,
                   put_failed, delivered, streamed, ModuleVars, IndexerVars,
                   pending_stream_requests, keepalive, ping_channel, stream_log>>

\* listen<GenesisEvent>: GenesisEvent::GenesisBlock(signed_block)
GenesisBlock(block, F) ==
    /\ loop = "running"
    /\ Commit(handle_signed_block(DAState, block, F))
    /\ last_event' = [type |-> "GenesisBlock", block |-> block]
    /\ delivered' = delivered \cup {block}
    /\ UNCHANGED <<streamed, ModuleVars, IndexerVars>>
    /\ UNCHANGED <<need_catchup, catchup_task, catchup_height,
                   catchup_block_channel, catchup_channel, loop, now,
                   pending_stream_requests, ping_channel>>

\* listen<GenesisEvent>: any other GenesisEvent
NoGenesis ==
    /\ loop = "running"
    /\ need_catchup' = TRUE
    /\ effects' = <<>>
    /\ last_event' = [type |-> "NoGenesis"]
    /\ UNCHANGED <<blocks, buffered_signed_blocks, stream_peer_metadata,
                   catchup_task, catchup_height, catchup_block_channel,
                   catchup_channel, loop, now, emitted, put_failed, delivered,
                   streamed, ModuleVars, IndexerVars,
                   pending_stream_requests, keepalive, ping_channel, stream_log>>

\* ask_for_catchup_blocks: the height the catch-up stream is opened with.
catchup_start(store) == IF is_empty(store) THEN 0 ELSE last(store).height + 1

\* NewPeer that does not look at catchup_task before it dials.
NewPeer_task_not_checked(dial_ok) ==
    /\ loop = "running"
    /\ IF ~need_catchup
       THEN /\ effects' = <<>>
            /\ UNCHANGED <<catchup_task, loop>>
       ELSE /\ effects' = <<[kind |-> "ask_for_catchup_blocks",
                             spawned |-> dial_ok]>>
            /\ IF dial_ok
               THEN catchup_task' = "Running" /\ UNCHANGED loop
               ELSE loop' = "returned" /\ UNCHANGED catchup_task
    /\ last_event' = [type |-> "NewPeer", dial_ok |-> dial_ok,
                      start |-> catchup_start(blocks)]
    /\ UNCHANGED <<blocks, buffered_signed_blocks, stream_peer_metadata,
                   need_catchup, catchup_height, catchup_block_channel,
                   catchup_channel, now, emitted, put_failed, delivered,
                   streamed, ModuleVars, IndexerVars,
                   pending_stream_requests, keepalive, ping_channel, stream_log>>

\* listen<PeerEvent>: PeerEvent::NewPeer, with ask_for_catchup_blocks;
\* dial_ok tells whether RawDAListener::new succeeds.
NewPeer(dial_ok) ==
    /\ loop = "running"
    /\ IF ~need_catchup \/ catchup_task # "None"
       THEN /\ effects' = <<>>
            /\ UNCHANGED <<catchup_task, loop>>
       ELSE /\ effects' = <<[kind |-> "ask_for_catchup_blocks",
                             spawned |-> dial_ok]>>
            /\ IF dial_ok
               THEN catchup_task' = "Running" /\ UNCHANGED loop
               ELSE loop' = "returned" /\ UNCHANGED catchup_task
    /\ last_event' = [type |-> "NewPeer", dial_ok |-> dial_ok,
                      start |-> catchup_start(blocks)]
    /\ UNCHANGED <<blocks, buffered_signed_blocks, stream_peer_metadata,
                   need_catchup, catchup_height, catchup_block_channel,
                   catchup_channel, now, emitted, put_failed, delivered,
                   streamed, ModuleVars, IndexerVars,
                   pending_stream_requests, keepalive, ping_channel, stream_log>>

\* The task spawned by ask_for_catchup_blocks forwards a streamed block.
CatchupTaskSend(block) ==
    /\ loop = "running"
    /\ catchup_task = "Running"
    /\ Len(catchup_block_channel) < ChannelCap
    /\ catchup_block_channel' = Append(catchup_block_channel, block)
    /\ effects' = <<>>
    /\ last_event' = [type |-> "CatchupTaskSend"]
    /\ UNCHANGED <<blocks, buffered_signed_blocks, stream_peer_metadata,
                   need_catchup, catchup_task, catchup_height, catchup_channel,
                   loop, now, emitted, put_failed, delivered,
                   streamed, ModuleVars, IndexerVars,
                   pending_stream_requests, keepalive, ping_channel, stream_log>>

\* The task spawned by ask_for_catchup_blocks ends: end of stream or error.
CatchupTaskEnd ==
    /\ loop = "running"
    /\ catchup_task = "Running"
    /\ catchup_task' = "Stopped"
    /\ effects' = <<>>
    /\ last_event' = [type |-> "CatchupTaskEnd"]
    /\ UNCHANGED <<blocks, buffered_signed_blocks, stream_peer_metadata,
                   need_catchup, catchup_height, catchup_block_channel,
                   catchup_channel, loop, now, emitted, put_failed, delivered,
                   streamed, ModuleVars, IndexerVars,
                   pending_stream_requests, keepalive, ping_channel, stream_log>>

\* A catch-up branch that commits the streamed block without the
\* acceptance path of handle_signed_block.
CatchupBlockRecv_not_checked(F) ==
    /\ loop = "running"
    /\ catchup_block_channel # <<>>
    /\ LET streamed_block == Head(catchup_block_channel)
           height == streamed_block.height
       IN /\ Commit(add_processed_block(DAState, streamed_block, F))
          /\ last_event' = [type |-> "CatchupBlock", block |-> streamed_block]
          /\ delivered' = delivered \cup {streamed_block}
          /\ streamed' = TRUE
          /\ UNCHANGED <<ModuleVars, IndexerVars>>
          /\ IF /\ catchup_height # NoHeight
                /\ catchup_height <= height
                /\ catchup_task # "None"
             THEN /\ catchup_task' = "None"
                  /\ need_catchup' = FALSE
             ELSE UNCHANGED <<catchup_task, need_catchup>>
    /\ catchup_block_channel' = Tail(catchup_block_channel)
    /\ UNCHANGED <<catchup_height, catchup_channel, loop, now,
                   pending_stream_requests, ping_channel>>

\* The catch-up branch that stops the stream only above the target
\* (`<` for `<=`).
CatchupBlockRecv_above_target(F) ==
    /\ loop = "running"
    /\ catchup_block_channel # <<>>
    /\ LET streamed_block == Head(catchup_block_channel)
           height == streamed_block.height
       IN /\ Commit(handle_signed_block(DAState, streamed_block, F))
          /\ last_event' = [type |-> "CatchupBlock", block |-> streamed_block]
          /\ delivered' = delivered \cup {streamed_block}
          /\ streamed' = TRUE
          /\ UNCHANGED <<ModuleVars, IndexerVars>>
          /\ IF /\ catchup_height # NoHeight
                /\ catchup_height < height
                /\ catchup_task # "None"
             THEN /\ catchup_task' = "None"
                  /\ need_catchup' = FALSE
             ELSE UNCHANGED <<catchup_task, need_catchup>>
    /\ catchup_block_channel' = Tail(catchup_block_channel)
    /\ UNCHANGED <<catchup_height, catchup_channel, loop, now,
                   pending_stream_requests, ping_channel>>

\* Some(streamed_block) = catchup_block_receiver.recv()
CatchupBlockRecv(F) ==
    /\ loop = "running"
    /\ catchup_block_channel # <<>>
    /\ LET streamed_block == Head(catchup_block_channel)
           height == streamed_block.height
       IN /\ Commit(handle_signed_block(DAState, streamed_block, F))
          /\ last_event' = [type |-> "CatchupBlock", block |-> streamed_block]
          /\ delivered' = delivered \cup {streamed_block}
          /\ streamed' = TRUE
          /\ UNCHANGED <<ModuleVars, IndexerVars>>
          /\ IF /\ catchup_height # NoHeight
                /\ catchup_height <= height
                /\ catchup_task # "None"
             THEN /\ catchup_task' = "None"
                  /\ need_catchup' = FALSE
             ELSE UNCHANGED <<catchup_task, need_catchup>>
    /\ catchup_block_channel' = Tail(catchup_block_channel)
    /\ UNCHANGED <<catchup_height, catchup_channel, loop, now,
                   pending_stream_requests, ping_channel>>

\* First frames a peer can send on a new connection; "Undecodable" is
\* Some(Err(..)) and "Closed" is None of receiver.next().
Frames ==
    {[type |-> "BlockHeight", height |-> h] : h \in 0 .. ChainLen}
    \cup {[type |-> "Ping"], [type |-> "Undecodable"], [type |-> "Closed"]}

\* The task of pending_stream_requests that takes a ping for a start height 0.
read_start_height_accepts_ping(frame) ==
    IF frame.type = "BlockHeight"
    THEN [ok |-> TRUE, start_height |-> frame.height]
    ELSE IF frame.type = "Ping"
    THEN [ok |-> TRUE, start_height |-> 0]
    ELSE [ok |-> FALSE, error |-> "no start height"]

\* The result of the task of pending_stream_requests that read `frame`.
read_start_height(frame) ==
    IF frame.type = "BlockHeight"
    THEN [ok |-> TRUE, start_height |-> frame.height]
    ELSE IF frame.type = "Ping"
    THEN [ok |-> FALSE, error |-> "Got a ping instead of a block height"]
    ELSE [ok |-> FALSE, error |-> "no start height"]

\* Ok((stream, addr)) = stream_request_receiver.accept(): spawns the task
\* that reads the first frame.
Accept(peer_ip) ==
    /\ loop = "running"
    /\ peer_ip \notin DOMAIN pending_stream_requests
    /\ pending_stream_requests' =
           [p \in DOMAIN pending_stream_requests \cup {peer_ip} |->
               IF p = peer_ip THEN [pc |-> "reading"]
               ELSE pending_stream_requests[p]]
    /\ effects' = <<>>
    /\ last_event' = [type |-> "Accept", peer_ip |-> peer_ip]
    /\ UNCHANGED <<blocks, buffered_signed_blocks, stream_peer_metadata,
                   need_catchup, catchup_task, catchup_height,
                   catchup_block_channel, catchup_channel, loop, now, emitted,
                   put_failed, delivered,
                   streamed, ModuleVars, IndexerVars, keepalive, ping_channel, stream_log>>

\* The task of pending_stream_requests reads the first frame and ends.
FirstFrame(peer_ip, frame) ==
    /\ loop = "running"
    /\ peer_ip \in DOMAIN pending_stream_requests
    /\ pending_stream_requests[peer_ip].pc = "reading"
    /\ pending_stream_requests' =
           [pending_stream_requests EXCEPT
               ![peer_ip] = [pc |-> "done", frame |-> frame,
                             cmd |-> read_start_height(frame)]]
    /\ effects' = <<>>
    /\ last_event' = [type |-> "FirstFrame", peer_ip |-> peer_ip]
    /\ UNCHANGED <<blocks, buffered_signed_blocks, stream_peer_metadata,
                   need_catchup, catchup_task, catchup_height,
                   catchup_block_channel, catchup_channel, loop, now, emitted,
                   put_failed, delivered,
                   streamed, ModuleVars, IndexerVars, keepalive, ping_channel, stream_log>>

\* start_streaming_to_peer that computes the range of stored blocks before
\* it inserts the peer.
start_streaming_to_peer_range_first(peer_ip, start_height) ==
    LET to == (IF is_empty(blocks) THEN start_height
               ELSE last(blocks).height) + 1
        in_range == range(blocks, start_height, to)
        hashes == [i \in 1 .. Len(in_range) |-> in_range[i].hash]
        processed_block_hashes == Reverse(hashes)
    IN /\ keepalive' =
              [p \in DOMAIN keepalive \cup {peer_ip} |->
                  IF p = peer_ip THEN [pc |-> "next", inbound |-> "open"]
                  ELSE keepalive[p]]
       /\ stream_peer_metadata' =
              [p \in DOMAIN stream_peer_metadata \cup {peer_ip} |->
                  IF p = peer_ip THEN [last_ping |-> now]
                  ELSE stream_peer_metadata[p]]
       /\ stream_log' =
              [p \in DOMAIN stream_log \cup {peer_ip} |->
                  IF p = peer_ip
                  THEN [start_height |-> start_height, store |-> blocks,
                        snapshot |-> hashes, sent |-> <<>>,
                        historical |-> "running", last_frame |-> now]
                  ELSE stream_log[p]]
       /\ IF Len(catchup_channel) < ChannelCap
          THEN /\ catchup_channel' =
                      Append(catchup_channel,
                             [block_hashes |-> processed_block_hashes,
                              peer_ip |-> peer_ip])
               /\ UNCHANGED loop
          ELSE /\ loop' = "blocked"
               /\ UNCHANGED catchup_channel
       /\ effects' = <<[kind |-> "spawn_keepalive", peer_ip |-> peer_ip],
                       [kind |-> "range", peer_ip |-> peer_ip,
                        block_hashes |-> hashes],
                       [kind |-> "insert", peer_ip |-> peer_ip]>>

\* start_streaming_to_peer: spawns the keep-alive task, inserts the peer,
\* then queues the hashes of the stored blocks from start_height on;
\* effects lists what it did, in the order of the code.
start_streaming_to_peer(peer_ip, start_height) ==
    LET to == (IF is_empty(blocks) THEN start_height
               ELSE last(blocks).height) + 1
        in_range == range(blocks, start_height, to)
        hashes == [i \in 1 .. Len(in_range) |-> in_range[i].hash]
        processed_block_hashes == Reverse(hashes)
    IN /\ keepalive' =
              [p \in DOMAIN keepalive \cup {peer_ip} |->
                  IF p = peer_ip THEN [pc |-> "next", inbound |-> "open"]
                  ELSE keepalive[p]]
       /\ stream_peer_metadata' =
              [p \in DOMAIN stream_peer_metadata \cup {peer_ip} |->
                  IF p = peer_ip THEN [last_ping |-> now]
                  ELSE stream_peer_metadata[p]]
       /\ stream_log' =
              [p \in DOMAIN stream_log \cup {peer_ip} |->
                  IF p = peer_ip
                  THEN [start_height |-> start_height, store |-> blocks,
                        snapshot |-> hashes, sent |-> <<>>,
                        historical |-> "running", last_frame |-> now]
                  ELSE stream_log[p]]
       /\ IF Len(catchup_channel) < ChannelCap
          THEN /\ catchup_channel' =
                      Append(catchup_channel,
                             [block_hashes |-> processed_block_hashes,
                              peer_ip |-> peer_ip])
               /\ UNCHANGED loop
          ELSE /\ loop' = "blocked"
               /\ UNCHANGED catchup_channel
       /\ effects' = <<[kind |-> "spawn_keepalive", peer_ip |-> peer_ip],
                       [kind |-> "insert", peer_ip |-> peer_ip],
                       [kind |-> "range", peer_ip |-> peer_ip,
                        block_hashes |-> hashes]>>

\* Some(Ok(cmd)) = pending_stream_requests.join_next()
JoinNext(peer_ip) ==
    /\ loop = "running"
    /\ peer_ip \in DOMAIN pending_stream_requests
    /\ pending_stream_requests[peer_ip].pc = "done"
    /\ LET cmd == pending_stream_requests[peer_ip].cmd
       IN IF cmd.ok
          THEN start_streaming_to_peer(peer_ip, cmd.start_height)
          ELSE /\ effects' = <<>>
               /\ UNCHANGED <<stream_peer_metadata, keepalive, stream_log,
                              catchup_channel, loop>>
    /\ pending_stream_requests' =
           [p \in DOMAIN pending_stream_requests \ {peer_ip} |->
               pending_stream_requests[p]]
    /\ last_event' = [type |-> "JoinNext", peer_ip |-> peer_ip,
                      frame |-> pending_stream_requests[peer_ip].frame]
    /\ UNCHANGED <<blocks, buffered_signed_blocks, need_catchup, catchup_task,
                   catchup_height, catchup_block_channel, now, emitted,
                   put_failed, delivered, streamed, ModuleVars, IndexerVars, ping_channel>>

\* A connection whose first frame is BlockHeight(start_height), from accept
\* to start_streaming_to_peer, in one step.
StartStreamingToPeer(peer_ip, start_height) ==
    /\ loop = "running"
    /\ start_streaming_to_peer(peer_ip, start_height)
    /\ last_event' = [type |-> "StreamRequest", peer_ip |-> peer_ip,
                      start_height |-> start_height]
    /\ UNCHANGED <<blocks, buffered_signed_blocks, need_catchup, catchup_task,
                   catchup_height, catchup_block_channel, now, emitted,
                   put_failed, delivered,
                   streamed, ModuleVars, IndexerVars, pending_stream_requests,
                   ping_channel>>

\* What the historical phase of a peer records in stream_log.
LogHistorical(peer_ip, entry, state) ==
    [p \in DOMAIN stream_log |->
        IF p = peer_ip
        THEN [stream_log[p] EXCEPT !.sent = @ \o entry, !.historical = state]
        ELSE stream_log[p]]

\* A historical branch that re-queues the remaining hashes also after a
\* failed send.
HistoricalSend_requeues_after_failure(send_ok) ==
    /\ loop = "running"
    /\ catchup_channel # <<>>
    /\ LET msg == Head(catchup_channel)
           block_hashes == msg.block_hashes
           peer_ip == msg.peer_ip
           n == Len(block_hashes)
           rest == Tail(catchup_channel)
       IN IF n = 0
          THEN /\ catchup_channel' = rest
               /\ effects' = <<>>
               /\ stream_log' = LogHistorical(peer_ip, <<>>, "done")
               /\ UNCHANGED loop
          ELSE IF ~contains(blocks, block_hashes[n])
          THEN /\ catchup_channel' = rest
               /\ effects' = <<>>
               /\ stream_log' = LogHistorical(peer_ip, <<>>, "stopped")
               /\ UNCHANGED loop
          ELSE IF peer_ip \notin DOMAIN stream_peer_metadata
          THEN /\ catchup_channel' = rest
               /\ effects' = <<>>
               /\ stream_log' = LogHistorical(peer_ip, <<>>, "stopped")
               /\ loop' = "returned"
          ELSE IF send_ok
          THEN /\ catchup_channel' =
                      Append(rest, [block_hashes |-> SubSeq(block_hashes, 1, n - 1),
                                    peer_ip |-> peer_ip])
               /\ effects' = <<[kind |-> "send", peer_ip |-> peer_ip,
                                block |-> get(blocks, block_hashes[n])]>>
               /\ stream_log' =
                      LogHistorical(peer_ip,
                                    <<[hash |-> block_hashes[n],
                                       phase |-> "historical"]>>, "running")
               /\ UNCHANGED loop
          ELSE /\ catchup_channel' =
                      Append(rest, [block_hashes |-> SubSeq(block_hashes, 1, n - 1),
                                    peer_ip |-> peer_ip])
               /\ effects' = <<[kind |-> "send_failed", peer_ip |-> peer_ip,
                                block |-> get(blocks, block_hashes[n])]>>
               /\ stream_log' = LogHistorical(peer_ip, <<>>, "stopped")
               /\ UNCHANGED loop
    /\ last_event' = [type |-> "HistoricalSend"]
    /\ UNCHANGED <<blocks, buffered_signed_blocks, stream_peer_metadata,
                   need_catchup, catchup_task, catchup_height,
                   catchup_block_channel, now, emitted, put_failed, delivered,
                   streamed, ModuleVars, IndexerVars,
                   pending_stream_requests, keepalive, ping_channel>>

\* Some((block_hashes, peer_ip)) = catchup_receiver.recv(); send_ok tells
\* whether the send to the peer succeeds.
HistoricalSend(send_ok) ==
    /\ loop = "running"
    /\ catchup_channel # <<>>
    /\ LET msg == Head(catchup_channel)
           block_hashes == msg.block_hashes
           peer_ip == msg.peer_ip
           n == Len(block_hashes)
           rest == Tail(catchup_channel)
       IN IF n = 0
          THEN /\ catchup_channel' = rest
               /\ effects' = <<>>
               /\ stream_log' = LogHistorical(peer_ip, <<>>, "done")
               /\ UNCHANGED loop
          ELSE IF ~contains(blocks, block_hashes[n])
          THEN /\ catchup_channel' = rest
               /\ effects' = <<>>
               /\ stream_log' = LogHistorical(peer_ip, <<>>, "stopped")
               /\ UNCHANGED loop
          ELSE IF peer_ip \notin DOMAIN stream_peer_metadata
          THEN /\ catchup_channel' = rest
               /\ effects' = <<>>
               /\ stream_log' = LogHistorical(peer_ip, <<>>, "stopped")
               /\ loop' = "returned"
          ELSE IF send_ok
          THEN /\ catchup_channel' =
                      Append(rest, [block_hashes |-> SubSeq(block_hashes, 1, n - 1),
                                    peer_ip |-> peer_ip])
               /\ effects' = <<[kind |-> "send", peer_ip |-> peer_ip,
                                block |-> get(blocks, block_hashes[n])]>>
               /\ stream_log' =
                      LogHistorical(peer_ip,
                                    <<[hash |-> block_hashes[n],
                                       phase |-> "historical"]>>, "running")
               /\ UNCHANGED loop
          ELSE /\ catchup_channel' = rest
               /\ effects' = <<[kind |-> "send_failed", peer_ip |-> peer_ip,
                                block |-> get(blocks, block_hashes[n])]>>
               /\ stream_log' = LogHistorical(peer_ip, <<>>, "stopped")
               /\ UNCHANGED loop
    /\ last_event' = [type |-> "HistoricalSend"]
    /\ UNCHANGED <<blocks, buffered_signed_blocks, stream_peer_metadata,
                   need_catchup, catchup_task, catchup_height,
                   catchup_block_channel, now, emitted, put_failed, delivered,
                   streamed, ModuleVars, IndexerVars,
                   pending_stream_requests, keepalive, ping_channel>>

\* The peer closes its side of the connection, or the connection breaks:
\* from now on receiver.next() of the keep-alive task returns at once,
\* without a frame.
PeerClosed(peer_ip) ==
    /\ loop = "running"
    /\ peer_ip \in DOMAIN keepalive
    /\ keepalive[peer_ip].inbound = "open"
    /\ keepalive' = [keepalive EXCEPT ![peer_ip].inbound = "closed"]
    /\ effects' = <<>>
    /\ last_event' = [type |-> "PeerClosed", peer_ip |-> peer_ip]
    /\ UNCHANGED <<blocks, buffered_signed_blocks, stream_peer_metadata,
                   need_catchup, catchup_task, catchup_height,
                   catchup_block_channel, catchup_channel, loop, now, emitted,
                   put_failed, delivered,
                   streamed, ModuleVars, IndexerVars, pending_stream_requests,
                   ping_channel, stream_log>>

\* Keep-alive task: receiver.next().await returns, with a frame of the
\* peer while the inbound side is open, with None or an error afterwards.
KeepaliveNext(peer_ip) ==
    /\ loop = "running"
    /\ peer_ip \in DOMAIN keepalive
    /\ keepalive[peer_ip].pc = "next"
    /\ keepalive' = [keepalive EXCEPT ![peer_ip].pc = "send"]
    /\ stream_log' =
           IF keepalive[peer_ip].inbound = "open"
           THEN [stream_log EXCEPT ![peer_ip].last_frame = now]
           ELSE stream_log
    /\ effects' = <<>>
    /\ last_event' = [type |-> "KeepaliveNext", peer_ip |-> peer_ip]
    /\ UNCHANGED <<blocks, buffered_signed_blocks, stream_peer_metadata,
                   need_catchup, catchup_task, catchup_height,
                   catchup_block_channel, catchup_channel, loop, now, emitted,
                   put_failed, delivered,
                   streamed, ModuleVars, IndexerVars, pending_stream_requests,
                   ping_channel>>

\* Keep-alive task: ping_sender.send(peer_ip).await, which waits while the
\* channel is full.
KeepalivePing(peer_ip) ==
    /\ loop = "running"
    /\ peer_ip \in DOMAIN keepalive
    /\ keepalive[peer_ip].pc = "send"
    /\ Len(ping_channel) < ChannelCap
    /\ ping_channel' = Append(ping_channel, peer_ip)
    /\ keepalive' = [keepalive EXCEPT ![peer_ip].pc = "next"]
    /\ effects' = <<>>
    /\ last_event' = [type |-> "KeepalivePing", peer_ip |-> peer_ip]
    /\ UNCHANGED <<blocks, buffered_signed_blocks, stream_peer_metadata,
                   need_catchup, catchup_task, catchup_height,
                   catchup_block_channel, catchup_channel, loop, now, emitted,
                   put_failed, delivered,
                   streamed, ModuleVars, IndexerVars, pending_stream_requests, stream_log>>

\* Some(peer_id) = ping_receiver.recv()
PingRecv ==
    /\ loop = "running"
    /\ ping_channel # <<>>
    /\ LET peer_id == Head(ping_channel)
       IN stream_peer_metadata' =
              IF peer_id \in DOMAIN stream_peer_metadata
              THEN [stream_peer_metadata EXCEPT ![peer_id].last_ping = now]
              ELSE stream_peer_metadata
    /\ ping_channel' = Tail(ping_channel)
    /\ effects' = <<>>
    /\ last_event' = [type |-> "Ping", peer_id |-> Head(ping_channel)]
    /\ UNCHANGED <<blocks, buffered_signed_blocks, need_catchup, catchup_task,
                   catchup_height, catchup_block_channel, catchup_channel, loop,
                   now, emitted, put_failed, delivered, streamed, ModuleVars, IndexerVars,
                   pending_stream_requests, keepalive, stream_log>>

\* Time passes.
Tick(seconds) ==
    /\ now + seconds <= MaxNow
    /\ now' = now + seconds
    /\ effects' = <<>>
    /\ last_event' = [type |-> "Tick"]
    /\ UNCHANGED <<blocks, buffered_signed_blocks, stream_peer_metadata,
                   need_catchup, catchup_task, catchup_height,
                   catchup_block_channel, catchup_channel, loop, emitted,
                   put_failed, delivered, streamed, ModuleVars, IndexerVars,
                   pending_stream_requests, keepalive, ping_channel, stream_log>>

\* ------------------------------------------------------------------------
\* utils/modules.rs: ModulesHandler
\* ------------------------------------------------------------------------

\* What the run future of a module does.
Runs == {"Ok", "Err", "panic", "forever"}

\* The task "wait-abort-cmd" among the tasks of a handler with n modules.
AbortTask(n) == n + 1

\* The tasks of the handler that are still running.
RunningTasks == {i \in DOMAIN modules_handler.tasks :
                     modules_handler.tasks[i] = "running"}

\* ModulesHandler::start_modules with n modules added; the caller spawns the
\* returned future. When a spawn fails there is no future and no closure.
StartModules(n, run, spawn_ok) ==
    /\ modules_handler.pc = "built"
    /\ modules_handler' =
           IF spawn_ok
           THEN [modules_handler EXCEPT
                    !.pc = "waiting",
                    !.run = run,
                    !.tasks = [i \in 1 .. AbortTask(n) |-> "running"],
                    !.handles = 1 .. AbortTask(n)]
           ELSE [modules_handler EXCEPT !.pc = "failed"]
    /\ last_event' = [type |-> "StartModules", spawn_ok |-> spawn_ok]
    /\ UNCHANGED <<DataAvailabilityVars, IndexerVars, disk, save_calls, loaded>>

\* ModulesHandler::run_module: module.run() finishes, or panics.
RunModule(i) ==
    /\ i \in RunningTasks
    /\ i \in DOMAIN modules_handler.run
    /\ modules_handler.run[i] # "forever"
    /\ modules_handler' =
           [modules_handler EXCEPT
               !.tasks[i] = IF modules_handler.run[i] = "panic"
                            THEN "panicked" ELSE modules_handler.run[i]]
    /\ last_event' = [type |-> "RunModule", task |-> i]
    /\ UNCHANGED <<DataAvailabilityVars, IndexerVars, disk, save_calls, loaded>>

\* The abort closure is called (tx.send(()).ok()), or dropped uncalled.
Abort(called) ==
    /\ modules_handler.pc \in {"waiting", "returned"}
    /\ modules_handler.tasks # <<>>
    /\ modules_handler.abort = "held"
    /\ modules_handler' =
           [modules_handler EXCEPT
               !.abort = IF called THEN "called" ELSE "dropped"]
    /\ last_event' = [type |-> "Abort", called |-> called]
    /\ UNCHANGED <<DataAvailabilityVars, IndexerVars, disk, save_calls, loaded>>

\* The task "wait-abort-cmd": rx.await.ok(); Ok(())
WaitAbortCmd ==
    /\ modules_handler.abort # "held"
    /\ \E i \in RunningTasks :
           /\ i \notin DOMAIN modules_handler.run
           /\ modules_handler' = [modules_handler EXCEPT !.tasks[i] = "Ok"]
    /\ last_event' = [type |-> "WaitAbortCmd"]
    /\ UNCHANGED <<DataAvailabilityVars, IndexerVars, disk, save_calls, loaded>>

\* A wait that returns Ok as soon as one task has finished with Ok.
wait_for_first_returns_on_ok(i) ==
    /\ modules_handler.pc = "waiting"
    /\ i \in modules_handler.handles
    /\ modules_handler.tasks[i] # "running"
    /\ modules_handler' =
           [modules_handler EXCEPT
               !.pc = "returned",
               !.handles = {},
               !.result = IF modules_handler.tasks[i] = "Ok"
                          THEN "Ok" ELSE "Err"]
    /\ last_event' = [type |-> "wait_for_first", task |-> i]
    /\ UNCHANGED <<DataAvailabilityVars, IndexerVars, disk, save_calls, loaded>>

\* ModulesHandler::wait_for_first: one turn of the loop, select_all having
\* returned the finished task i.
wait_for_first(i) ==
    /\ modules_handler.pc = "waiting"
    /\ i \in modules_handler.handles
    /\ modules_handler.tasks[i] # "running"
    /\ LET remaining == modules_handler.handles \ {i}
       IN modules_handler' =
              IF modules_handler.tasks[i] = "Ok"
              THEN [modules_handler EXCEPT
                       !.handles = remaining,
                       !.pc = IF remaining = {} THEN "returned" ELSE @,
                       !.result = IF remaining = {} THEN "Ok" ELSE @]
              ELSE IF modules_handler.tasks[i] = "Err"
              THEN [modules_handler EXCEPT
                       !.handles = {},
                       !.tasks = [j \in DOMAIN @ |->
                                     IF j \in remaining /\ @[j] = "running"
                                     THEN "aborted" ELSE @[j]],
                       !.pc = "returned",
                       !.result = "Err"]
              ELSE [modules_handler EXCEPT
                       !.handles = {},
                       !.pc = "returned",
                       !.result = "Err"]
    /\ last_event' = [type |-> "wait_for_first", task |-> i]
    /\ UNCHANGED <<DataAvailabilityVars, IndexerVars, disk, save_calls, loaded>>

\* ------------------------------------------------------------------------
\* utils/modules.rs: Module::save_on_disk and Module::load_from_disk_or_default
\* ------------------------------------------------------------------------

\* The temporary files of the calls that are under way.
TmpInUse == {save_calls[c].tmp : c \in {d \in Callers : save_calls[d].pc # "idle"}}

\* The files of d with the file at path holding bytes.
WriteFile(d, path, bytes) ==
    [f \in DOMAIN d \cup {path} |-> IF f = path THEN bytes ELSE d[f]]

\* save_on_disk that creates the target file itself and encodes into it.
SaveCreate_in_place(c, store, salt, ok) ==
    /\ save_calls[c].pc = "idle"
    /\ salt \notin TmpInUse
    /\ IF ok
       THEN /\ disk' = WriteFile(disk, File, <<>>)
            /\ save_calls' = [save_calls EXCEPT
                                 ![c] = [pc |-> "encode", store |-> store,
                                         tmp |-> File, result |-> "none"]]
       ELSE /\ disk' = disk
            /\ save_calls' = [save_calls EXCEPT
                                 ![c] = [IdleCall EXCEPT !.result = "Err"]]
    /\ last_event' = [type |-> "SaveCreate", caller |-> c, ok |-> ok]
    /\ UNCHANGED <<DataAvailabilityVars, IndexerVars, modules_handler, loaded>>

\* save_on_disk(folder, file, store): the salt is drawn and
\* fs::File::create(tmp) runs. Calls under way hold different salts: 8
\* random alphanumeric characters each.
SaveCreate(c, store, salt, ok) ==
    /\ save_calls[c].pc = "idle"
    /\ salt \notin TmpInUse
    /\ IF ok
       THEN /\ disk' = WriteFile(disk, salt, <<>>)
            /\ save_calls' = [save_calls EXCEPT
                                 ![c] = [pc |-> "encode", store |-> store,
                                         tmp |-> salt, result |-> "none"]]
       ELSE /\ disk' = disk
            /\ save_calls' = [save_calls EXCEPT
                                 ![c] = [IdleCall EXCEPT !.result = "Err"]]
    /\ last_event' = [type |-> "SaveCreate", caller |-> c, ok |-> ok]
    /\ UNCHANGED <<DataAvailabilityVars, IndexerVars, modules_handler, loaded>>

\* save_on_disk: bincode::encode_into_std_write writes the next byte of the
\* encoding to the temporary file, or fails.
SaveEncode(c, ok) ==
    /\ save_calls[c].pc = "encode"
    /\ LET tmp == save_calls[c].tmp
           bytes == encode(save_calls[c].store)
           written == Len(disk[tmp])
       IN IF ok
          THEN /\ disk' = [disk EXCEPT ![tmp] = Append(@, bytes[written + 1])]
               /\ save_calls' =
                      [save_calls EXCEPT
                          ![c].pc = IF written + 1 = Len(bytes)
                                    THEN "rename" ELSE "encode"]
          ELSE /\ disk' = disk
               /\ save_calls' = [save_calls EXCEPT
                                    ![c] = [IdleCall EXCEPT !.result = "Err"]]
    /\ last_event' = [type |-> "SaveEncode", caller |-> c, ok |-> ok]
    /\ UNCHANGED <<DataAvailabilityVars, IndexerVars, modules_handler, loaded>>

\* save_on_disk: fs::rename(tmp, file) and the return.
SaveRename(c, ok) ==
    /\ save_calls[c].pc = "rename"
    /\ LET tmp == save_calls[c].tmp
       IN IF ok
          THEN /\ disk' = [f \in (DOMAIN disk \ {tmp}) \cup {File} |->
                              IF f = File THEN disk[tmp] ELSE disk[f]]
               /\ save_calls' = [save_calls EXCEPT
                                    ![c] = [IdleCall EXCEPT
                                               !.store = save_calls[c].store,
                                               !.result = "Ok"]]
          ELSE /\ disk' = disk
               /\ save_calls' = [save_calls EXCEPT
                                    ![c] = [IdleCall EXCEPT !.result = "Err"]]
    /\ last_event' = [type |-> "SaveRename", caller |-> c, ok |-> ok,
                      store |-> save_calls[c].store]
    /\ UNCHANGED <<DataAvailabilityVars, IndexerVars, modules_handler, loaded>>

\* Module::load_from_disk_or_default(file)
LoadFromDiskOrDefault ==
    /\ loaded' = load_from_disk_or_default(disk, File)
    /\ last_event' = [type |-> "LoadFromDiskOrDefault"]
    /\ UNCHANGED <<DataAvailabilityVars, IndexerVars, modules_handler, disk, save_calls>>

\* The file is removed, or left with a content no save has written, by
\* something other than save_on_disk.
FileDamaged(removed, bytes) ==
    /\ File \in DOMAIN disk
    /\ disk' = IF removed
               THEN [f \in DOMAIN disk \ {File} |-> disk[f]]
               ELSE [disk EXCEPT ![File] = bytes]
    /\ last_event' = [type |-> "FileDamaged", removed |-> removed]
    /\ UNCHANGED <<DataAvailabilityVars, IndexerVars, modules_handler, save_calls, loaded>>

\* ------------------------------------------------------------------------
\* indexer.rs: Indexer::handle_processed_block and the websocket subscribers
\* ------------------------------------------------------------------------

\* The hashes of the blocks the node state hands to the indexer.
BlockHashes == {"b1", "b2"}

\* The contract names of blobs and of websocket subscriptions.
ContractNames == {"c1", "c2"}

\* An unsigned value above the MAX of the signed type it is converted to.
TooLarge == -1

\* i32::try_from / i64::try_from of an unsigned value
try_from(value) == value # TooLarge

\* The transactions of a block: a blob transaction with one blob for
\* contract c1, a verified proof, a proof that is not verified, and a
\* verified proof without its proof whose version does not fit i32.
Transactions ==
    {[version |-> 1, transaction_data |-> "Blob", blobs |-> <<"c1">>],
     [version |-> 1, transaction_data |-> "VerifiedProof", blobs |-> <<>>],
     [version |-> 1, transaction_data |-> "Proof", blobs |-> <<>>],
     [version |-> TooLarge, transaction_data |-> "VerifiedProofNone",
      blobs |-> <<>>]}

\* The lists of at most MaxTxs transactions.
TxLists == UNION {[1 .. n -> Transactions] : n \in 0 .. MaxTxs}

\* The key columns of a row: a block hash, the index of a transaction in
\* its block (a transaction hash is the pair of the two), a contract name
\* and a blob index.
Key(block_hash, tx, contract_name, index) ==
    <<block_hash, tx, contract_name, index>>

\* Block: the processed block with the given transactions; with_outputs
\* tells whether the lists of settled, failed and timed out transactions,
\* proof outputs, verified blobs, registered contracts and updated states
\* hold one entry each or none.
NewBlock(hash, block_height, block_timestamp, txs, with_outputs) ==
    LET other == CHOOSE h \in BlockHashes : h # hash
        one(x) == IF with_outputs THEN <<x>> ELSE <<>>
    IN [hash |-> hash,
        block_height |-> block_height,
        block_timestamp |-> block_timestamp,
        txs |-> txs,
        successful_txs |-> one(Key(hash, 1, "", 0)),
        failed_txs |-> one(Key(other, 1, "", 0)),
        timed_out_txs |-> one(Key(other, 2, "", 0)),
        blob_proof_outputs |-> one([blob_tx_hash |-> Key(hash, 1, "", 0),
                                    blob_index |-> 0,
                                    blob_proof_output_index |-> 0,
                                    contract_name |-> "c1"]),
        verified_blobs |-> one([blob_tx_hash |-> Key(hash, 1, "", 0),
                                blob_index |-> 0,
                                blob_proof_output_index |-> 0]),
        registered_contracts |-> one([contract_name |-> "c2",
                                      state_digest |-> "registered"]),
        updated_states |-> one([contract_name |-> "c2",
                                state_digest |-> hash])]

\* NodeStateEvent::NewBlock: the blocks the indexer is handed: a block b1
\* with at most one transaction, or with a height or a timestamp that
\* does not fit i64, and a block b2 with any list of transactions, with
\* and without outputs.
IndexerBlocks ==
    {NewBlock("b1", 1, 1, txs, FALSE) : txs \in {l \in TxLists : Len(l) <= 1}}
    \cup {NewBlock("b1", TooLarge, 1, <<>>, FALSE),
          NewBlock("b1", 1, TooLarge, <<>>, FALSE)}
    \cup {NewBlock("b2", 1, 1, txs, with_outputs) :
              txs \in TxLists, with_outputs \in BOOLEAN}

\* The set of the elements of a sequence.
ElementsOf(seq) == {seq[i] : i \in 1 .. Len(seq)}

\* The steps of the handler that can end it or leave a trace.
Convert(value) == [kind |-> "try_from", value |-> value]
Insert(table, key, value) ==
    [kind |-> "execute", op |-> "INSERT", table |-> table, key |-> key,
     value |-> value]
Update(table, key, value) ==
    [kind |-> "execute", op |-> "UPDATE", table |-> table, key |-> key,
     value |-> value]
Bail == [kind |-> "bail"]

\* The concatenation of f[1], .., f[n].
RECURSIVE Concat(_, _)
Concat(f, n) == IF n = 0 THEN <<>> ELSE Concat(f, n - 1) \o f[n]

\* handle_processed_block, lines 257-341: the steps for the transaction at
\* place i (from 1) of the block; the index sent to the subscribers is the
\* counter after its increment.
TxSteps(block, i) ==
    LET tx == block.txs[i]
        tx_hash == Key(block.hash, i, "", 0)
        blob_steps ==
            [n \in 1 .. Len(tx.blobs) |->
                <<Convert(n - 1),
                  [kind |-> "send", contract_names |-> ElementsOf(tx.blobs),
                   block_hash |-> block.hash, index |-> i],
                  Insert("blobs", Key(block.hash, i, "", n - 1), "false")>>]
    IN <<Convert(tx.version),
         Insert("transactions", tx_hash,
                IF tx.transaction_data = "Blob" THEN "Sequenced" ELSE "Success")>>
       \o (CASE tx.transaction_data = "Blob" -> Concat(blob_steps, Len(tx.blobs))
             [] tx.transaction_data = "VerifiedProof" ->
                    <<Insert("proofs", tx_hash, "proof")>>
             [] tx.transaction_data = "VerifiedProofNone" -> <<>>
             [] OTHER -> <<Bail>>)

\* handle_processed_block, lines 343-480: the steps after the transactions.
OutputSteps(block) ==
    LET each(list, steps(_)) == Concat([n \in 1 .. Len(list) |-> steps(list[n])],
                                       Len(list))
        settled(tx_hash) == <<Update("transactions", tx_hash, "Success")>>
        failed(tx_hash) == <<Update("transactions", tx_hash, "Failure")>>
        timed_out(tx_hash) == <<Update("transactions", tx_hash, "TimedOut")>>
        proof_output(o) ==
            <<Convert(o.blob_index), Convert(o.blob_proof_output_index),
              Insert("blob_proof_outputs",
                     Key(o.blob_tx_hash[1], o.blob_tx_hash[2], "", o.blob_index),
                     "false")>>
        verified(v) ==
            <<Convert(v.blob_index),
              Update("blobs",
                     Key(v.blob_tx_hash[1], v.blob_tx_hash[2], "", v.blob_index),
                     "true"),
              Convert(v.blob_proof_output_index),
              Update("blob_proof_outputs",
                     Key(v.blob_tx_hash[1], v.blob_tx_hash[2], "", v.blob_index),
                     "true")>>
        registered(c) ==
            <<Insert("contracts", Key("", 0, c.contract_name, 0), c.state_digest),
              Insert("contract_state", Key(block.hash, 0, c.contract_name, 0),
                     c.state_digest)>>
        updated(u) ==
            <<Update("contract_state", Key(block.hash, 0, u.contract_name, 0),
                     u.state_digest),
              Update("contracts", Key("", 0, u.contract_name, 0), u.state_digest)>>
    IN each(block.successful_txs, settled)
       \o each(block.failed_txs, failed)
       \o each(block.timed_out_txs, timed_out)
       \o each(block.blob_proof_outputs, proof_output)
       \o each(block.verified_blobs, verified)
       \o each(block.registered_contracts, registered)
       \o each(block.updated_states, updated)

\* handle_processed_block, lines 229-483, in the order of the code: the
\* conversions of height and timestamp, the insert of the block, the
\* transactions, the outputs, and the commit.
Steps(block) ==
    <<Convert(block.block_height), Convert(block.block_timestamp),
      Insert("blocks", Key(block.hash, 0, "", 0), "")>>
    \o Concat([i \in 1 .. Len(block.txs) |-> TxSteps(block, i)], Len(block.txs))
    \o OutputSteps(block)
    \o <<[kind |-> "commit"]>>

\* The statements sent to the database among the first n steps.
Statements(steps, n) ==
    Cardinality({i \in 1 .. n : steps[i].kind \in {"execute", "commit"}})

\* .execute(&mut *transaction): the rows after the statement.
execute(rows, st) ==
    IF st.op = "INSERT"
    THEN rows \cup {[table |-> st.table, key |-> st.key, value |-> st.value]}
    ELSE {IF r.table = st.table /\ r.key = st.key
          THEN [r EXCEPT !.value = st.value] ELSE r : r \in rows}

\* The step ends the handler with an error: a conversion that does not
\* fit, bail!, or the statement the database refuses (the fail_at-th one).
Fails(steps, i, fail_at) ==
    \/ steps[i].kind = "try_from" /\ ~try_from(steps[i].value)
    \/ steps[i].kind = "bail"
    \/ steps[i].kind \in {"execute", "commit"} /\ Statements(steps, i) = fail_at

\* Indexer::send_blob_transaction_to_websocket_subscribers: the
\* transaction goes to the senders of every subscribed contract name that
\* one of its blobs carries.
send_blob_transaction_to_websocket_subscribers(send) ==
    {[contract_name |-> c, block_hash |-> send.block_hash, index |-> send.index] :
         c \in subscribers \cap send.contract_names}

\* The steps run one after the other from step i: the rows the database
\* transaction holds, the transactions sent to subscribers, and whether
\* the commit was reached and succeeded.
RECURSIVE RunSteps(_, _, _, _, _)
RunSteps(steps, i, fail_at, rows, sent) ==
    IF Fails(steps, i, fail_at)
    THEN [rows |-> rows, sent |-> sent, committed |-> FALSE]
    ELSE IF steps[i].kind = "commit"
    THEN [rows |-> rows, sent |-> sent, committed |-> TRUE]
    ELSE RunSteps(steps, i + 1, fail_at,
                  IF steps[i].kind = "execute" THEN execute(rows, steps[i])
                  ELSE rows,
                  IF steps[i].kind = "send"
                  THEN sent \cup send_blob_transaction_to_websocket_subscribers(
                                      steps[i])
                  ELSE sent)

\* listen<NodeStateEvent>: NodeStateEvent::NewBlock(block), with
\* Indexer::handle_processed_block. The rows are written in a database
\* transaction, which is rolled back when it is dropped without a commit.
\* The node state sends a block once: no block that is indexed comes again.
handle_processed_block(block, fail_at) ==
    /\ Key(block.hash, 0, "", 0) \notin {r.key : r \in {x \in db : x.table = "blocks"}}
    /\ \E steps \in {Steps(block)} :
           /\ fail_at <= Statements(steps, Len(steps))
           /\ \E run \in {RunSteps(steps, 1, fail_at, db, {})} :
                  /\ db' = IF run.committed THEN run.rows ELSE db
                  /\ ws_sent' = ws_sent \cup run.sent
                  /\ last_event' = [type |-> "NewBlock", hash |-> block.hash,
                                    ok |-> run.committed]
    /\ UNCHANGED <<DataAvailabilityVars, ModuleVars, subscribers>>

\* self.new_sub_receiver.recv(): a websocket subscribes to a contract name.
NewSubscriber(contract_name) ==
    /\ subscribers' = subscribers \cup {contract_name}
    /\ last_event' = [type |-> "NewSubscriber", contract_name |-> contract_name]
    /\ UNCHANGED <<DataAvailabilityVars, ModuleVars, db, ws_sent>>

\* The addresses a new connection can come from: the address of an
\* accepted connection is one the node has not enrolled before.
FreshPeers == Peers \ DOMAIN stream_log

Next ==
    \/ \E block \in Universe : \E F \in FaultsOf(block) : BuiltSignedBlock(block, F)
    \/ \E height \in 1 .. ChainLen : StartedBuildingBlocks(height)
    \/ \E block \in GenesisBlocks : \E F \in FaultsOf(block) : GenesisBlock(block, F)
    \/ NoGenesis
    \/ \E dial_ok \in BOOLEAN : NewPeer(dial_ok)
    \/ \E block \in Universe : CatchupTaskSend(block)
    \/ CatchupTaskEnd
    \/ /\ catchup_block_channel # <<>>
       /\ \E F \in FaultsOf(Head(catchup_block_channel)) : CatchupBlockRecv(F)
    \/ \E peer_ip \in FreshPeers, start_height \in 0 .. ChainLen :
           StartStreamingToPeer(peer_ip, start_height)
    \/ \E send_ok \in BOOLEAN : HistoricalSend(send_ok)
    \/ \E peer_ip \in FreshPeers : Accept(peer_ip)
    \/ \E peer_ip \in Peers, frame \in Frames : FirstFrame(peer_ip, frame)
    \/ \E peer_ip \in Peers : JoinNext(peer_ip)
    \/ \E peer_ip \in Peers : PeerClosed(peer_ip)
    \/ \E peer_ip \in Peers : KeepaliveNext(peer_ip)
    \/ \E peer_ip \in Peers : KeepalivePing(peer_ip)
    \/ PingRecv
    \/ \E seconds \in {PingTimeout, PingTimeout + 1} : Tick(seconds)
    \/ \E n \in 0 .. MaxModules, spawn_ok \in BOOLEAN :
           \E run \in [1 .. n -> Runs] : StartModules(n, run, spawn_ok)
    \/ \E i \in 1 .. MaxModules : RunModule(i)
    \/ \E called \in BOOLEAN : Abort(called)
    \/ WaitAbortCmd
    \/ \E i \in 1 .. MaxModules + 1 : wait_for_first(i)
    \/ \E c \in Callers, store \in Values, salt \in Salts, ok \in BOOLEAN :
           SaveCreate(c, store, salt, ok)
    \/ \E c \in Callers, ok \in BOOLEAN : SaveEncode(c, ok)
    \/ \E c \in Callers, ok \in BOOLEAN : SaveRename(c, ok)
    \/ LoadFromDiskOrDefault
    \/ \E removed \in BOOLEAN, bytes \in Garbage : FileDamaged(removed, bytes)
    \/ \E block \in IndexerBlocks :
           \E fail_at \in 0 .. Len(Steps(block)) :
               handle_processed_block(block, fail_at)
    \/ \E contract_name \in ContractNames : NewSubscriber(contract_name)

Spec == Init /\ [][Next]_vars

\* The block acceptance pipeline fed by the bus alone: every block of the
\* universe, in every order, with faults.
NextCore ==
    \/ \E block \in Universe : \E F \in FaultsOf(block) : BuiltSignedBlock(block, F)
    \/ \E block \in GenesisBlocks : \E F \in FaultsOf(block) : GenesisBlock(block, F)

SpecCore == Init /\ [][NextCore]_vars

\* Blocks delivered when stream peers or the catch-up stream take part.
FewBlocks == Chain \cup {OrphanBlock}

\* The block acceptance pipeline fed by the bus, with stream peers.
NextAccept ==
    \/ \E block \in FewBlocks : \E F \in FaultsOf(block) : BuiltSignedBlock(block, F)
    \/ \E block \in GenesisBlocks \cap FewBlocks :
           \E F \in FaultsOf(block) : GenesisBlock(block, F)
    \/ \E peer_ip \in FreshPeers, start_height \in 0 .. ChainLen :
           StartStreamingToPeer(peer_ip, start_height)
    \/ \E send_ok \in BOOLEAN : HistoricalSend(send_ok)
    \/ \E seconds \in {PingTimeout, PingTimeout + 1} : Tick(seconds)

SpecAccept == Init /\ [][NextAccept]_vars

\* The block acceptance pipeline fed by the bus and by the catch-up stream.
NextIngest ==
    \/ \E block \in FewBlocks : \E F \in FaultsOf(block) : BuiltSignedBlock(block, F)
    \/ StartedBuildingBlocks(ChainLen)
    \/ \E block \in GenesisBlocks \cap FewBlocks :
           \E F \in FaultsOf(block) : GenesisBlock(block, F)
    \/ NoGenesis
    \/ \E dial_ok \in BOOLEAN : NewPeer(dial_ok)
    \/ \E block \in Chain : CatchupTaskSend(block)
    \/ CatchupTaskEnd
    \/ /\ catchup_block_channel # <<>>
       /\ \E F \in FaultsOf(Head(catchup_block_channel)) : CatchupBlockRecv(F)

SpecIngest == Init /\ [][NextIngest]_vars

\* The catch-up state machine: the blocks of the chain from the bus and
\* from the catch-up stream in every order, with faults, and every event
\* that moves need_catchup, catchup_task or catchup_height.
NextCatchup ==
    \/ \E block \in Chain : \E F \in FaultsOf(block) : BuiltSignedBlock(block, F)
    \/ \E height \in {1, ChainLen} : StartedBuildingBlocks(height)
    \/ \E F \in FaultsOf(ChainBlock(0)) : GenesisBlock(ChainBlock(0), F)
    \/ NoGenesis
    \/ \E dial_ok \in BOOLEAN : NewPeer(dial_ok)
    \/ \E block \in Chain : CatchupTaskSend(block)
    \/ CatchupTaskEnd
    \/ /\ catchup_block_channel # <<>>
       /\ \E F \in FaultsOf(Head(catchup_block_channel)) : CatchupBlockRecv(F)

SpecCatchup == Init /\ [][NextCatchup]_vars

\* Stream peers from the accepted connection to the historical and the
\* live phase, with the chain committed from the bus.
NextStream ==
    \/ \E block \in Chain : \E F \in FaultsOf(block) : BuiltSignedBlock(block, F)
    \/ \E peer_ip \in FreshPeers : Accept(peer_ip)
    \/ \E peer_ip \in Peers, frame \in Frames : FirstFrame(peer_ip, frame)
    \/ \E peer_ip \in Peers : JoinNext(peer_ip)
    \/ \E send_ok \in BOOLEAN : HistoricalSend(send_ok)
    \/ \E seconds \in {PingTimeout, PingTimeout + 1} : Tick(seconds)

SpecStream == Init /\ [][NextStream]_vars

\* An enrolled stream peer and its keep-alive task, with the chain
\* committed from the bus.  The loop and the keep-alive tasks are prompt:
\* time passes only while no ping is on its way to the loop.
NextKeepalive ==
    \/ \E block \in Chain : BuiltSignedBlock(block, {})
    \/ \E peer_ip \in FreshPeers : StartStreamingToPeer(peer_ip, 0)
    \/ \E peer_ip \in Peers : PeerClosed(peer_ip)
    \/ \E peer_ip \in Peers : KeepaliveNext(peer_ip)
    \/ \E peer_ip \in Peers : KeepalivePing(peer_ip)
    \/ PingRecv
    \/ /\ ping_channel = <<>>
       /\ \A p \in DOMAIN keepalive : keepalive[p].pc = "next"
       /\ \E seconds \in {PingTimeout, PingTimeout + 1} : Tick(seconds)

SpecKeepalive == Init /\ [][NextKeepalive]_vars

\* The module handler: start, the tasks, the abort command and the wait.
NextModules ==
    \/ \E n \in 0 .. MaxModules, spawn_ok \in BOOLEAN :
           \E run \in [1 .. n -> Runs] : StartModules(n, run, spawn_ok)
    \/ \E i \in 1 .. MaxModules : RunModule(i)
    \/ \E called \in BOOLEAN : Abort(called)
    \/ WaitAbortCmd
    \/ \E i \in 1 .. MaxModules + 1 : wait_for_first(i)

SpecModules == Init /\ [][NextModules]_vars

\* The saved state of a module: saves by one caller, loads, and a file
\* damaged from outside.
NextDisk ==
    \/ \E store \in Values, salt \in Salts, ok \in BOOLEAN :
           SaveCreate("c1", store, salt, ok)
    \/ \E ok \in BOOLEAN : SaveEncode("c1", ok)
    \/ \E ok \in BOOLEAN : SaveRename("c1", ok)
    \/ LoadFromDiskOrDefault
    \/ \E removed \in BOOLEAN, bytes \in Garbage : FileDamaged(removed, bytes)

SpecDisk == Init /\ [][NextDisk]_vars

\* Saves of several callers to the same file, their steps interleaved.
NextSaves ==
    \/ \E c \in Callers, store \in Values, salt \in Salts, ok \in BOOLEAN :
           SaveCreate(c, store, salt, ok)
    \/ \E c \in Callers, ok \in BOOLEAN : SaveEncode(c, ok)
    \/ \E c \in Callers, ok \in BOOLEAN : SaveRename(c, ok)

SpecSaves == Init /\ [][NextSaves]_vars

\* The indexer: processed blocks whose statements succeed or fail at any
\* place, and websocket subscriptions.
NextIndexer ==
    \/ \E block \in IndexerBlocks :
           \E fail_at \in 0 .. Len(Steps(block)) :
               handle_processed_block(block, fail_at)
    \/ \E contract_name \in ContractNames : NewSubscriber(contract_name)

SpecIndexer == Init /\ [][NextIndexer]_vars

\* More peer addresses than the historical channel has room for.
ManyPeers == {"p1", "p2"}

\* Several peers that enrol while others are in their historical phase.
NextBackpressure ==
    \/ \E block \in Chain : BuiltSignedBlock(block, {})
    \/ \E peer_ip \in ManyPeers \ DOMAIN stream_log :
           StartStreamingToPeer(peer_ip, 0)
    \/ \E send_ok \in BOOLEAN : HistoricalSend(send_ok)

SpecBackpressure == Init /\ [][NextBackpressure]_vars

\* ------------------------------------------------------------------------
\* Properties
\* ------------------------------------------------------------------------

\* The step taken is one that calls handle_signed_block(block) for a bus
\* event (every action records itself in last_event).
BusBlockStep(block) ==
    /\ last_event'.type \in {"BuiltSignedBlock", "GenesisBlock"}
    /\ last_event'.block = block

\* C1: the sequence of OrderedSignedBlock emissions starts with a block of
\* height 0, and every later emitted block has the hash of the block
\* emitted just before it as parent_hash, and a strictly greater height.
C1_OrderedDelivery ==
    /\ emitted # <<>> => emitted[1].height = 0
    /\ \A i \in 2 .. Len(emitted) :
           /\ emitted[i].parent_hash = emitted[i - 1].hash
           /\ emitted[i].height > emitted[i - 1].height

\* C2: no block hash is emitted as OrderedSignedBlock more than once,
\* whether the block arrives from the bus or from the catch-up channel.
C2_NoDuplicateEmission ==
    \A i, j \in 1 .. Len(emitted) :
        emitted[i].hash = emitted[j].hash => i = j

\* C2 witness: a block that still sits in the reorder buffer has been
\* committed by a later delivery on the catch-up channel, which ran the drain.
C2_Witness ==
    /\ last_event.type = "CatchupBlock"
    /\ last_event.block \in buffered_signed_blocks
    /\ last_event.block \in blocks
    /\ effects # <<>>

\* C3: handle_signed_block with a block whose hash is already in the store
\* changes nothing: store, reorder buffer, peer table and catch-up state are
\* unchanged, nothing is sent to a peer or emitted, persist is not invoked.
C3_DuplicateChangesNothing ==
    [][\A block \in Universe :
           (contains(blocks, block.hash) /\ BusBlockStep(block)) =>
               /\ UNCHANGED <<blocks, buffered_signed_blocks, stream_peer_metadata,
                              need_catchup, catchup_task, catchup_height, emitted>>
               /\ effects' = <<>>]_vars

\* C3 witness: a stored block was delivered again while a peer is enrolled.
C3_Witness ==
    /\ last_event.type = "BuiltSignedBlock"
    /\ last_event.block \in blocks
    /\ effects = <<>>
    /\ DOMAIN stream_peer_metadata # {}

\* C4: for the linear chain delivered in any order without I/O fault, the
\* store stays empty and nothing is emitted until B0 is delivered, and once
\* all blocks are delivered the store is exactly the chain, the reorder
\* buffer is empty and the emissions are B0 .. Bn in ascending height.
C4_ChainInAnyOrder ==
    (delivered \subseteq Chain /\ ~put_failed) =>
        /\ ChainBlock(0) \notin delivered => blocks = {} /\ emitted = <<>>
        /\ delivered = Chain =>
               /\ blocks = Chain
               /\ buffered_signed_blocks = {}
               /\ emitted = [i \in 1 .. ChainLen |-> ChainBlock(i - 1)]

\* C4 witness: the chain was delivered with B0 last, and that one step
\* committed and emitted every block.
C4_Witness ==
    /\ delivered = Chain
    /\ ~put_failed
    /\ last_event.type = "BuiltSignedBlock"
    /\ last_event.block = ChainBlock(0)
    /\ Len(effects) = 3 * ChainLen + 1

\* C5: every block in the store other than the first committed height-0
\* block has its parent_hash in the store, also when store.put may fail.
C5_ParentStored ==
    \A b \in blocks :
        \/ emitted # <<>> /\ b = emitted[1] /\ b.height = 0
        \/ contains(blocks, b.parent_hash)

\* C6: with a non-empty store, the store holds a block of every height
\* from 0 to last().height.
C6_DenseHeights ==
    ~is_empty(blocks) =>
        \A k \in 0 .. last(blocks).height : \E b \in blocks : b.height = k

\* C7: no block in the reorder buffer has a hash that is in the store.
C7_BufferDisjointFromStore ==
    \A b \in buffered_signed_blocks : ~contains(blocks, b.hash)

\* C8: after every step the reorder buffer holds only blocks whose parent
\* is not in the store.
C8_BufferHoldsOnlyOrphans ==
    \A b \in buffered_signed_blocks : ~contains(blocks, b.parent_hash)

\* C9: with a non-empty store, handle_signed_block of a block that is not
\* stored and whose parent is not stored adds the block to the reorder
\* buffer and does nothing else: store unchanged, nothing sent or emitted,
\* no drain, no persist.
C9_OrphanIsOnlyBuffered ==
    [][\A block \in Universe :
           (/\ ~is_empty(blocks)
            /\ ~contains(blocks, block.hash)
            /\ ~contains(blocks, block.parent_hash)
            /\ BusBlockStep(block)) =>
               /\ buffered_signed_blocks' = buffered_signed_blocks \cup {block}
               /\ UNCHANGED <<blocks, stream_peer_metadata, emitted>>
               /\ effects' = <<>>]_vars

\* C9 witness: an orphan was buffered behind a non-empty store while a peer
\* is enrolled.
C9_Witness ==
    /\ last_event.type = "BuiltSignedBlock"
    /\ last_event.block \in buffered_signed_blocks
    /\ ~is_empty(blocks)
    /\ ~contains(blocks, last_event.block.hash)
    /\ ~contains(blocks, last_event.block.parent_hash)
    /\ effects = <<>>
    /\ DOMAIN stream_peer_metadata # {}

\* C10: while the store is empty, handle_signed_block passes a block to the
\* store if and only if its height is 0, whatever its parent hash; a block
\* of another height is buffered and neither stored nor emitted.
C10_EmptyStoreTakesHeightZero ==
    [][\A block \in Universe :
           (is_empty(blocks) /\ BusBlockStep(block)) =>
               IF block.height = 0
               THEN /\ effects' # <<>>
                    /\ effects'[1].block = block
                    /\ IF effects'[1].kind = "put"
                       THEN /\ block \in blocks'
                            /\ block \notin buffered_signed_blocks'
                            /\ emitted'[1] = block
                       ELSE /\ effects'[1].kind = "put_failed"
                            /\ block \notin blocks'
               ELSE /\ is_empty(blocks')
                    /\ buffered_signed_blocks' = buffered_signed_blocks \cup {block}
                    /\ emitted' = emitted
                    /\ effects' = <<>>]_vars

\* C10 witness: the empty store took a block of height 0 whose parent hash
\* is not the default one, after a block of another height was buffered.
C10_Witness ==
    /\ emitted # <<>>
    /\ emitted[1] = AltGenesis
    /\ AltGenesis.parent_hash # NoHash
    /\ buffered_signed_blocks # {}

\* The hashes of the blocks sent to peer p so far, in the order of the sends.
SentHashes(p) ==
    [i \in 1 .. Len(stream_log[p].sent) |-> stream_log[p].sent[i].hash]

\* The hashes sent to peer p by one phase ("historical" or "live"), in order.
SentBy(p, phase) ==
    LET of_phase == SelectSeq(stream_log[p].sent, LAMBDA e : e.phase = phase)
    IN [i \in 1 .. Len(of_phase) |-> of_phase[i].hash]

\* The elements of a sequence.
Range(s) == {s[i] : i \in 1 .. Len(s)}

\* C11: in a commit step of handle_signed_block the effects come in the
\* order put, drain, persist, and only then fan-out and emission: no block
\* is sent to a peer or emitted on the bus before the persist call that
\* covers it has been made.
C11_PersistBeforeFanoutAndEmit ==
    \A i \in 1 .. Len(effects) :
        effects[i].kind \in {"fanout", "emit"} =>
            \E j \in 1 .. i - 1 : effects[j].kind = "persist"

\* C12: if store.put fails for a block, that block is not sent to any
\* stream peer and is not emitted, the store (and so last()) does not take
\* it and changes by nothing but the puts that succeed in the step, and the
\* event loop keeps running.
C12_FailedPutIsContained ==
    [][\A i \in 1 .. Len(effects') :
           effects'[i].kind = "put_failed" =>
               LET block == effects'[i].block
                   stored == {effects'[j].block :
                                 j \in {k \in 1 .. Len(effects') :
                                           effects'[k].kind = "put"}}
               IN /\ \A j \in 1 .. Len(effects') :
                         effects'[j].kind \in {"put", "fanout", "emit"} =>
                             effects'[j].block # block
                  /\ \A p \in DOMAIN stream_log' :
                         \A k \in 1 .. Len(stream_log'[p].sent) :
                             stream_log'[p].sent[k].hash # block.hash
                  /\ block \notin Range(emitted')
                  /\ ~contains(blocks', block.hash)
                  /\ blocks' = blocks \cup stored
                  /\ (stored = {} /\ ~is_empty(blocks)) => last(blocks') = last(blocks)
                  /\ loop' = "running"]_vars

\* C12 witness: the put of a block failed while a peer is enrolled that
\* every committed block is sent to; the store is as it was and a later
\* step can commit the block.
C12_Witness ==
    /\ Len(effects) = 2
    /\ effects[1].kind = "put_failed"
    /\ effects[2].kind = "persist"
    /\ ~is_empty(blocks)
    /\ ~contains(blocks, effects[1].block.hash)
    /\ DOMAIN stream_peer_metadata # {}
    /\ TimedOut(stream_peer_metadata) = {}
    /\ loop = "running"
    /\ ENABLED BuiltSignedBlock(effects[1].block, {})

\* The step sends a block to peer p, in the live fan-out or in the
\* historical phase.
SendsTo(p) ==
    \E i \in 1 .. Len(effects') :
        \/ effects'[i].kind = "fanout" /\ p \in effects'[i].sent
        \/ effects'[i].kind = "send" /\ effects'[i].peer_ip = p

\* C13: an inbound connection is enrolled only if its first frame is
\* BlockHeight(h); if the first frame is a Ping, cannot be decoded, or the
\* connection closes before a frame arrives, the peer is not added to
\* stream_peer_metadata, receives no block, and the connection is dropped.
C13_EnrolledOnlyByBlockHeight ==
    [][\A p \in Peers :
           /\ (/\ last_event'.type = "JoinNext"
               /\ last_event'.peer_ip = p
               /\ last_event'.frame.type # "BlockHeight") =>
                  /\ UNCHANGED <<stream_peer_metadata, keepalive, stream_log,
                                 catchup_channel>>
                  /\ p \notin DOMAIN stream_peer_metadata'
                  /\ p \notin DOMAIN keepalive'
                  /\ p \notin DOMAIN pending_stream_requests'
                  /\ effects' = <<>>
           /\ (p \notin DOMAIN stream_peer_metadata
               /\ p \in DOMAIN stream_peer_metadata') =>
                  /\ last_event'.type = "JoinNext"
                  /\ last_event'.peer_ip = p
                  /\ last_event'.frame.type = "BlockHeight"
                  /\ stream_log'[p].start_height = last_event'.frame.height
           /\ p \notin DOMAIN stream_peer_metadata => ~SendsTo(p)]_vars

\* C13 witness: with blocks in the store, the connection of p1, whose first
\* frame was a Ping, has been joined: p1 is not enrolled and its connection
\* is gone.
C13_Witness ==
    /\ last_event.type = "JoinNext"
    /\ last_event.peer_ip = "p1"
    /\ last_event.frame.type = "Ping"
    /\ ~is_empty(blocks)
    /\ "p1" \notin DOMAIN stream_peer_metadata
    /\ "p1" \notin DOMAIN pending_stream_requests
    /\ catchup_channel = <<>>

\* The blocks the historical phase of peer p has to send: the blocks of the
\* store at the enrollment of p with height in [h, last().height].
HistoricalRange(p) ==
    LET store == stream_log[p].store
    IN IF is_empty(store) THEN {}
       ELSE {b \in store : /\ stream_log[p].start_height <= b.height
                           /\ b.height <= last(store).height}

C14_WitnessNothingToSend ==
    /\ "p1" \in DOMAIN stream_peer_metadata
    /\ stream_log["p1"].historical = "done"
    /\ ~is_empty(stream_log["p1"].store)
    /\ stream_log["p1"].start_height > last(stream_log["p1"].store).height
    /\ stream_log["p1"].sent = <<>>

\* The step taken is one that calls handle_signed_block.
CommitStep ==
    last_event'.type \in {"BuiltSignedBlock", "GenesisBlock", "CatchupBlock"}

\* Live entries of stream_log for the blocks the first n effects of the
\* step put in the store, in the order of the puts.
LiveEntries(n) ==
    LET puts == SelectSeq(SubSeq(effects', 1, n), LAMBDA e : e.kind = "put")
    IN [i \in 1 .. Len(puts) |-> [hash |-> puts[i].block.hash, phase |-> "live"]]

\* C15: every block committed after a peer was enrolled, directly or
\* released from the reorder buffer, is sent to that peer in the step that
\* commits it, as long as the peer is in the table, has not timed out and
\* its sends succeed: a peer that stays in the table through the step was
\* sent every block the step committed, in order, and a peer whose send
\* failed was sent the blocks committed before the failure.
C15_CommittedBlocksSentInSameStep ==
    [][CommitStep =>
          \A p \in DOMAIN stream_peer_metadata :
              IF p \in DOMAIN stream_peer_metadata'
              THEN stream_log'[p].sent =
                       stream_log[p].sent \o LiveEntries(Len(effects'))
              ELSE \E i \in 1 .. Len(effects') :
                       /\ effects'[i].kind = "fanout"
                       /\ p \in effects'[i].evicted
                       /\ stream_log'[p].sent =
                              stream_log[p].sent \o LiveEntries(i - 2)]_vars

\* C15 witness: with a peer enrolled, one step committed a block and the
\* block the drain released from the reorder buffer, and the peer, still
\* enrolled, was sent both.
C15_Witness ==
    /\ "p1" \in DOMAIN stream_peer_metadata
    /\ Len(effects) = 7
    /\ effects[1].kind = "put"
    /\ effects[4].kind = "put"
    /\ Len(stream_log["p1"].sent) >= 2
    /\ LET n == Len(stream_log["p1"].sent)
       IN /\ stream_log["p1"].sent[n - 1] =
                 [hash |-> effects[1].block.hash, phase |-> "live"]
          /\ stream_log["p1"].sent[n] =
                 [hash |-> effects[4].block.hash, phase |-> "live"]

CommitIndex(hash) ==
    CHOOSE i \in 1 .. Len(emitted) : emitted[i].hash = hash

\* C17: to a single peer blocks are sent in commit order: if x was
\* committed before y and both are sent to the peer, x is sent before y,
\* also when y is committed while the historical phase of the peer is in
\* progress.
C17_SentInCommitOrder ==
    \A p \in DOMAIN stream_log :
        \A i, j \in 1 .. Len(stream_log[p].sent) :
            i < j => CommitIndex(stream_log[p].sent[i].hash)
                         < CommitIndex(stream_log[p].sent[j].hash)

\* C18: a peer from which no frame has been received for more than 300
\* seconds is evicted before the next fan-out reaches it: at the next
\* committed block it is sent nothing, it is removed from
\* stream_peer_metadata and its keep-alive task is aborted; this holds also
\* for a peer whose inbound side has reached end-of-stream or errors.
C18_SilentPeerEvicted ==
    [][\A p \in DOMAIN stream_peer_metadata :
           (/\ CommitStep
            /\ \E i \in 1 .. Len(effects') : effects'[i].kind = "fanout"
            /\ stream_log[p].last_frame + PingTimeout < now) =>
               /\ ~SendsTo(p)
               /\ p \notin DOMAIN stream_peer_metadata'
               /\ p \notin DOMAIN keepalive']_vars

\* C19 as stated: whenever a send of a block to a peer fails, in the live
\* fan-out or in the historical phase, the peer is evicted: it is removed
\* from the table and its keep-alive task is aborted.
C19_AnyFailedSendEvicts ==
    [][\A p \in DOMAIN stream_peer_metadata :
           (\E i \in 1 .. Len(effects') :
                \/ effects'[i].kind = "fanout" /\ p \in effects'[i].failed
                \/ effects'[i].kind = "send_failed" /\ effects'[i].peer_ip = p) =>
               /\ p \notin DOMAIN stream_peer_metadata'
               /\ p \notin DOMAIN keepalive']_vars

\* C19: whenever a send of a block to a peer fails in the live fan-out, the
\* peer is evicted: it is removed from the table, its keep-alive task is
\* aborted, and no later block is sent to it; a send that fails in the
\* historical phase ends the historical phase of the peer and leaves the
\* peer in the table, with its keep-alive task running.
C19_FailedLiveSendEvicts ==
    [][\A p \in Peers :
           /\ \A i \in 1 .. Len(effects') :
                  (effects'[i].kind = "fanout" /\ p \in effects'[i].failed) =>
                      /\ p \notin DOMAIN stream_peer_metadata'
                      /\ p \notin DOMAIN keepalive'
                      /\ \A j \in i + 1 .. Len(effects') :
                             effects'[j].kind = "fanout" =>
                                 p \notin effects'[j].sent
           /\ p \notin DOMAIN stream_peer_metadata =>
                  /\ ~SendsTo(p)
                  /\ p \in DOMAIN stream_log =>
                         stream_log'[p].sent = stream_log[p].sent
           /\ (\E i \in 1 .. Len(effects') :
                   effects'[i].kind = "send_failed" /\ effects'[i].peer_ip = p) =>
                  /\ p \in DOMAIN stream_peer_metadata'
                  /\ UNCHANGED <<stream_peer_metadata, keepalive>>
                  /\ \A m \in 1 .. Len(catchup_channel') :
                         catchup_channel'[m].peer_ip # p]_vars

\* C19 witness: the send of the first of two blocks committed in one step
\* failed for the enrolled peer; the peer is gone and was not sent the
\* second block.
C19_Witness ==
    /\ Len(effects) = 7
    /\ effects[2].kind = "fanout"
    /\ effects[2].failed = {"p1"}
    /\ effects[5].kind = "fanout"
    /\ effects[5].sent = {}
    /\ "p1" \notin DOMAIN stream_peer_metadata
    /\ "p1" \notin DOMAIN keepalive
    /\ "p1" \in DOMAIN stream_log

\* C20: no interaction with a peer makes the event loop return: a failed
\* handshake, a failed or timed-out send, a pending historical message for
\* an evicted peer, a failed dial to a catch-up peer and a catch-up stream
\* error all leave the loop running.
C20_LoopNeverReturns == loop # "returned"

\* C21: need_catchup becomes true only on a GenesisEvent other than
\* GenesisBlock; a catch-up stream is opened only by a NewPeer event handled
\* while need_catchup is true and no catch-up task is recorded, and such an
\* event opens one when the dial succeeds; in every other case the NewPeer
\* event changes no state.
C21_CatchupOpenedOnNewPeer ==
    [][/\ (~need_catchup /\ need_catchup') => last_event'.type = "NoGenesis"
       /\ (catchup_task # "Running" /\ catchup_task' = "Running") =>
              /\ last_event'.type = "NewPeer"
              /\ need_catchup
              /\ catchup_task = "None"
       /\ last_event'.type = "NewPeer" =>
              IF need_catchup /\ catchup_task = "None"
              THEN last_event'.dial_ok =>
                       /\ catchup_task' = "Running"
                       /\ UNCHANGED <<need_catchup, catchup_height, loop>>
              ELSE UNCHANGED <<blocks, buffered_signed_blocks,
                               stream_peer_metadata, need_catchup, catchup_task,
                               catchup_height, catchup_block_channel,
                               catchup_channel, loop, now, emitted, put_failed,
                               delivered,
                               streamed, ModuleVars, pending_stream_requests, keepalive,
                               ping_channel, stream_log>>]_vars

\* C21 witness: a NewPeer event was handled while need_catchup is true and a
\* catch-up task that has ended is still recorded, and opened nothing.
C21_Witness ==
    /\ last_event.type = "NewPeer"
    /\ last_event.dial_ok
    /\ need_catchup
    /\ catchup_task = "Stopped"
    /\ loop = "running"

\* C21 witness of the opening: a NewPeer event opened the catch-up stream
\* behind a non-empty store.
C21_WitnessOpened ==
    /\ last_event.type = "NewPeer"
    /\ need_catchup
    /\ catchup_task = "Running"
    /\ ~is_empty(blocks)
    /\ catchup_block_channel = <<>>

\* C22: if a catch-up stream ends (end of stream or error) before the
\* target height has been reached, the node stays in need_catchup and the
\* next NewPeer event opens a new catch-up stream.
C22_EndedStreamIsRetried ==
    [][/\ last_event'.type = "CatchupTaskEnd" => need_catchup' = need_catchup
       /\ (/\ last_event'.type = "NewPeer"
           /\ last_event'.dial_ok
           /\ need_catchup
           /\ catchup_task = "Stopped") => catchup_task' = "Running"]_vars

\* The step commits the block it handles.
CommitsHandledBlock ==
    \E i \in 1 .. Len(effects') :
        effects'[i].kind = "put" /\ effects'[i].block = last_event'.block

\* C23: while a catch-up task is running and a target is set, whenever a
\* block received on the catch-up channel is committed with height
\* h' >= target, the catch-up task is aborted, catchup_task becomes None and
\* need_catchup becomes false; a streamed block with height below the
\* target changes neither.
C23_StreamStopsAtTarget ==
    [][(/\ last_event'.type = "CatchupBlock"
        /\ catchup_task = "Running"
        /\ catchup_height # NoHeight) =>
           /\ (CommitsHandledBlock /\ last_event'.block.height >= catchup_height) =>
                  catchup_task' = "None" /\ need_catchup' = FALSE
           /\ last_event'.block.height < catchup_height =>
                  UNCHANGED <<catchup_task, need_catchup>>]_vars

\* C23 witness: the streamed block of height equal to the target was
\* committed and the catch-up was stopped.
C23_Witness ==
    /\ last_event.type = "CatchupBlock"
    /\ \E i \in 1 .. Len(effects) :
           effects[i].kind = "put" /\ effects[i].block = last_event.block
    /\ catchup_height = last_event.block.height
    /\ catchup_height > 0
    /\ catchup_task = "None"
    /\ ~need_catchup

\* C24: whenever the node leaves catch-up (need_catchup goes from true to
\* false), the store has reached the target: last().height >=
\* catchup_height, also when streamed blocks are buffered as orphans or
\* dropped as duplicates (stated for the runs in which no store.put fails).
C24_LeavesCatchupAtTarget ==
    [][(need_catchup /\ ~need_catchup' /\ ~put_failed') =>
           /\ ~is_empty(blocks')
           /\ catchup_height' # NoHeight
           /\ last(blocks').height >= catchup_height']_vars

\* C25: after the catch-up task has been aborted, the blocks still queued
\* on the catch-up channel are processed through handle_signed_block but
\* none of them with height above the target is committed to the store.
C25_NothingCommittedPastTarget ==
    [][(/\ last_event'.type = "CatchupBlock"
        /\ ~need_catchup
        /\ catchup_task # "Running"
        /\ catchup_height # NoHeight) =>
           \A i \in 1 .. Len(effects') :
               effects'[i].kind = "put" =>
                   effects'[i].block.height <= catchup_height]_vars

\* The heights of the blocks sent to peer p, in the order of the sends.
SentHeights(p) ==
    [i \in 1 .. Len(stream_log[p].sent) |->
        get(blocks, stream_log[p].sent[i].hash).height]

\* C26: a client that has committed the blocks 0 .. k opens its stream
\* with BlockHeight(k + 1), catchup_start of its store; from a server
\* whose store holds the heights 0 .. k it receives only blocks of height
\* k + 1 and above, in ascending order (stated for the runs in which no
\* store.put fails).
C26_ResubscriptionStartsAfterLast ==
    \A p \in DOMAIN stream_log :
        (/\ ~put_failed
         /\ stream_log[p].start_height >= 1
         /\ \A k \in 0 .. stream_log[p].start_height - 1 :
                \E b \in stream_log[p].store : b.height = k) =>
            /\ \A i \in 1 .. Len(stream_log[p].sent) :
                   SentHeights(p)[i] >= stream_log[p].start_height
            /\ \A i, j \in 1 .. Len(stream_log[p].sent) :
                   i < j => SentHeights(p)[i] < SentHeights(p)[j]

\* The number of blocks at the start of the chain that were all delivered.
RECURSIVE DeliveredPrefix(_)
DeliveredPrefix(n) ==
    IF n < ChainLen /\ ChainBlock(n) \in delivered
    THEN DeliveredPrefix(n + 1)
    ELSE n

\* C27: when the blocks of one chain come from the bus and from the
\* catch-up stream interleaved in any order, overlapping, duplicated or
\* reordered, and no store.put fails, then every stored block other than
\* the one of height 0 has its parent stored, the emissions are in
\* ascending height without a repeat, and store and emissions are the ones
\* of delivering each delivered block once in chain order: the blocks of
\* the chain up to the first one that was not delivered.
C27_InterleavedSourcesKeepChain ==
    (delivered \subseteq Chain /\ ~put_failed) =>
        /\ \A b \in blocks : b.height = 0 \/ contains(blocks, b.parent_hash)
        /\ \A i, j \in 1 .. Len(emitted) :
               i < j => emitted[i].height < emitted[j].height
        /\ blocks = {ChainBlock(i) : i \in 0 .. DeliveredPrefix(0) - 1}
        /\ emitted = [i \in 1 .. DeliveredPrefix(0) |-> ChainBlock(i - 1)]

\* C27 witness: blocks came from the bus and from the catch-up stream out
\* of chain order; the stream delivered a block ahead of its parent, and
\* the bus then delivered the parent in a step that committed both.
C27_Witness ==
    /\ streamed
    /\ ~put_failed
    /\ delivered = Chain
    /\ blocks = Chain
    /\ last_event.type = "BuiltSignedBlock"
    /\ last_event.block = ChainBlock(1)
    /\ Len(effects) = 3 * (ChainLen - 1) + 1
    /\ catchup_task = "Running"
    /\ need_catchup

\* The state of the catch-up state machine the implementation is in:
\* Catching while a task handle is recorded, else NeedCatchup while
\* need_catchup is set, else Synced.
Mode(flag, task) ==
    IF task # "None" THEN "Catching"
    ELSE IF flag THEN "NeedCatchup"
    ELSE "Synced"

\* A step that changes neither the state of the machine nor, outside
\* Synced, its target.
CatchupStutter ==
    /\ Mode(need_catchup', catchup_task') = Mode(need_catchup, catchup_task)
    /\ \/ Mode(need_catchup, catchup_task) = "Synced"
       \/ catchup_height' = catchup_height

\* Synced -> NeedCatchup on a GenesisEvent other than GenesisBlock
SyncedToNeedCatchup ==
    /\ Mode(need_catchup, catchup_task) = "Synced"
    /\ Mode(need_catchup', catchup_task') = "NeedCatchup"
    /\ last_event'.type = "NoGenesis"
    /\ catchup_height' = catchup_height

\* NeedCatchup -> Catching on NewPeer
NeedCatchupToCatching ==
    /\ Mode(need_catchup, catchup_task) = "NeedCatchup"
    /\ Mode(need_catchup', catchup_task') = "Catching"
    /\ last_event'.type = "NewPeer"
    /\ catchup_height' = catchup_height

\* Catching -> Catching(target = h - 1) on StartedBuildingBlocks(h)
CatchingNewTarget ==
    /\ Mode(need_catchup, catchup_task) = "Catching"
    /\ Mode(need_catchup', catchup_task') = "Catching"
    /\ last_event'.type = "StartedBuildingBlocks"
    /\ catchup_height' = last_event'.height - 1

\* Catching -> Synced on a streamed block with height >= target
CatchingToSynced ==
    /\ Mode(need_catchup, catchup_task) = "Catching"
    /\ Mode(need_catchup', catchup_task') = "Synced"
    /\ last_event'.type = "CatchupBlock"
    /\ catchup_height # NoHeight
    /\ last_event'.block.height >= catchup_height

\* Catching -> NeedCatchup when the stream ends
CatchingToNeedCatchup ==
    /\ Mode(need_catchup, catchup_task) = "Catching"
    /\ Mode(need_catchup', catchup_task') = "NeedCatchup"
    /\ last_event'.type = "CatchupTaskEnd"
    /\ catchup_height' = catchup_height

\* NeedCatchup -> NeedCatchup(target = h - 1) on StartedBuildingBlocks(h)
NeedCatchupNewTarget ==
    /\ Mode(need_catchup, catchup_task) = "NeedCatchup"
    /\ Mode(need_catchup', catchup_task') = "NeedCatchup"
    /\ last_event'.type = "StartedBuildingBlocks"
    /\ catchup_height' = last_event'.height - 1

\* C28 as stated: every step of the event loop is a stutter of the catch-up
\* state machine or one of its five transitions.
C28_FiveTransitions ==
    [][\/ CatchupStutter
       \/ SyncedToNeedCatchup
       \/ NeedCatchupToCatching
       \/ CatchingNewTarget
       \/ CatchingToSynced
       \/ CatchingToNeedCatchup]_vars

\* C28: (need_catchup, catchup_task, catchup_height) refines the catch-up
\* state machine when StartedBuildingBlocks(h) may set the target h - 1 in
\* NeedCatchup as it does in Catching: every step of the event loop is a
\* stutter, one of the five transitions, or NeedCatchup -> NeedCatchup with
\* target h - 1 on StartedBuildingBlocks(h).
C28_RefinesCatchupMachine ==
    [][\/ CatchupStutter
       \/ SyncedToNeedCatchup
       \/ NeedCatchupToCatching
       \/ CatchingNewTarget
       \/ CatchingToSynced
       \/ CatchingToNeedCatchup
       \/ NeedCatchupNewTarget]_vars

\* C28 witness: StartedBuildingBlocks(h) was handled in NeedCatchup and
\* set the target of a node that had none.
C28_Witness ==
    /\ last_event.type = "StartedBuildingBlocks"
    /\ Mode(need_catchup, catchup_task) = "NeedCatchup"
    /\ catchup_height = last_event.height - 1

\* C28 witness of a whole run of the machine: the node went from Synced
\* through NeedCatchup and Catching back to Synced on a streamed block that
\* reached the target.
C28_WitnessSynced ==
    /\ last_event.type = "CatchupBlock"
    /\ Mode(need_catchup, catchup_task) = "Synced"
    /\ catchup_height # NoHeight
    /\ last_event.block.height >= catchup_height
    /\ last_event.block \in blocks

\* A step of a task of the handler or of the future of start_modules.
ModulesProgress ==
    \/ \E i \in 1 .. MaxModules : RunModule(i)
    \/ WaitAbortCmd
    \/ \E i \in 1 .. MaxModules + 1 : wait_for_first(i)

\* C29: once the abort closure was called, the future returned by
\* start_modules completes with Ok, also for modules whose run never
\* finishes: as long as the future has not returned, some task or the
\* future itself can take a step (stated for modules that do not fail).
C29_AbortCompletesFuture ==
    (/\ modules_handler.abort = "called"
     /\ \A i \in DOMAIN modules_handler.run :
            modules_handler.run[i] \in {"Ok", "forever"}) =>
        \/ modules_handler.pc = "returned" /\ modules_handler.result = "Ok"
        \/ ENABLED ModulesProgress

\* C30: save_on_disk followed by load_from_disk_or_default on the same file
\* returns the saved value: when save_on_disk returns Ok the file decodes
\* to the saved value, and a load in the next step returns it; a load
\* returns the default value when the file is missing or cannot be decoded.
C30_SaveThenLoad ==
    [][/\ (last_event'.type = "SaveRename" /\ last_event'.ok) =>
              load_from_disk_or_default(disk', File) =
                  [source |-> "file", value |-> last_event'.store]
       /\ (/\ last_event.type = "SaveRename"
           /\ last_event.ok
           /\ last_event'.type = "LoadFromDiskOrDefault") =>
              loaded' = [source |-> "file", value |-> last_event.store]
       /\ (/\ last_event'.type = "LoadFromDiskOrDefault"
           /\ \/ File \notin DOMAIN disk
              \/ disk[File] \in Garbage) =>
              loaded' = [source |-> "default", value |-> Default]]_vars

\* C30 witness: a value whose encoding takes five bytes was saved and the
\* load that followed returned it.
C30_Witness ==
    /\ last_event.type = "LoadFromDiskOrDefault"
    /\ save_calls["c1"].pc = "idle"
    /\ save_calls["c1"].result = "Ok"
    /\ save_calls["c1"].store = 65536
    /\ Len(disk[File]) = 5
    /\ loaded = [source |-> "file", value |-> 65536]

\* C30 witness: a load found a file that cannot be decoded and returned the
\* default value.
C30_WitnessUndecodable ==
    /\ last_event.type = "LoadFromDiskOrDefault"
    /\ File \in DOMAIN disk
    /\ disk[File] \in Garbage
    /\ loaded = [source |-> "default", value |-> Default]

\* C30 witness: a load found no file and returned the default value.
C30_WitnessMissing ==
    /\ last_event.type = "LoadFromDiskOrDefault"
    /\ File \notin DOMAIN disk
    /\ save_calls["c1"].result = "Err"
    /\ loaded = [source |-> "default", value |-> Default]

\* The blocks the last step has put in the store with success.
PutInLastStep ==
    {effects[i].block : i \in {j \in 1 .. Len(effects) : effects[j].kind = "put"}}

\* C31: after a successful put(b), get(b.hash) returns b and
\* contains(b.hash) is true; after any sequence of successful puts last()
\* is a stored block of maximum height; putting a stored block again
\* leaves the store unchanged.
C31_StoreQueries ==
    /\ \A b \in PutInLastStep :
           /\ contains(blocks, b.hash)
           /\ get(blocks, b.hash) = b
    /\ ~is_empty(blocks) =>
           /\ last(blocks) \in blocks
           /\ \A b \in blocks : b.height <= last(blocks).height
    /\ \A b \in blocks : put(blocks, b) = blocks

\* C31 witness: a step has put two blocks, the store holds two blocks of
\* one height, and last() is above one of the blocks the step has put.
C31_Witness ==
    /\ Cardinality(PutInLastStep) >= 2
    /\ \E b, c \in blocks : b # c /\ b.height = c.height
    /\ \E b \in PutInLastStep : b.height < last(blocks).height

\* What is left to do on the historical channel: for every message, its
\* hashes and the message itself.
RECURSIVE HistoricalWork(_)
HistoricalWork(channel) ==
    IF channel = <<>> THEN 0
    ELSE Len(Head(channel).block_hashes) + 1 + HistoricalWork(Tail(channel))

\* The sends of the last step that succeeded.
SendsOfStep(step_effects) ==
    {i \in 1 .. Len(step_effects) : step_effects[i].kind = "send"}

\* C32: a step of the historical-send branch sends at most one block, to
\* the peer of the message it received; it re-queues the remaining hashes,
\* one fewer than before, if and only if that send succeeded; the work left
\* on the historical channel strictly shrinks at every such step, and after
\* a send the loop is free to take any other branch.
C32_OneHistoricalBlockPerStep ==
    [][last_event'.type = "HistoricalSend" =>
           LET msg == Head(catchup_channel)
               rest == Tail(catchup_channel)
               sends == SendsOfStep(effects')
           IN /\ Len(effects') <= 1
              /\ \A i \in 1 .. Len(effects') :
                     effects'[i].peer_ip = msg.peer_ip
              /\ IF sends # {}
                 THEN /\ msg.block_hashes # <<>>
                      /\ catchup_channel' =
                             Append(rest,
                                    [block_hashes |->
                                         SubSeq(msg.block_hashes, 1,
                                                Len(msg.block_hashes) - 1),
                                     peer_ip |-> msg.peer_ip])
                      /\ loop' = "running"
                 ELSE catchup_channel' = rest
              /\ HistoricalWork(catchup_channel') < HistoricalWork(catchup_channel)]_vars

\* C32 witness: the historical phase of a peer has sent two blocks in two
\* steps, a block from the bus was committed and sent live between them,
\* and hashes are still queued for the peer.
C32_Witness ==
    /\ last_event.type = "HistoricalSend"
    /\ SendsOfStep(effects) # {}
    /\ \E p \in DOMAIN stream_log :
           /\ Len(stream_log[p].sent) = 3
           /\ stream_log[p].sent[1].phase = "historical"
           /\ stream_log[p].sent[2].phase = "live"
           /\ stream_log[p].sent[3].phase = "historical"
    /\ catchup_channel # <<>>

\* C33: the event loop never waits forever on a send to its own historical
\* channel, whatever the number of peers that are in their historical
\* phase at once.
C33_HistoricalChannelNeverBlocks == loop # "blocked"

\* C34: when the ping channel is full, the keep-alive task of a peer that
\* has a ping to send does not wait: it drops the ping and goes on to the
\* next inbound frame, so the task always has a step it can take.
C34_FullPingChannelDropsPing ==
    \A p \in DOMAIN keepalive :
        (keepalive[p].pc = "send" /\ Len(ping_channel) >= ChannelCap) =>
            ENABLED (KeepalivePing(p) \/ KeepaliveNext(p))

\* The place of the effect of the given kind among the effects of a step,
\* 0 when the step has none.
EffectIndex(step_effects, kind) ==
    IF \E i \in 1 .. Len(step_effects) : step_effects[i].kind = kind
    THEN CHOOSE i \in 1 .. Len(step_effects) : step_effects[i].kind = kind
    ELSE 0

\* A step that has enrolled a peer.
EnrolStep ==
    /\ last_event'.type \in {"JoinNext", "StreamRequest"}
    /\ EffectIndex(effects', "insert") > 0

\* No block is committed inside an enrolling step: the store the range is
\* computed on is the store the peer was inserted with.
NoCommitInEnrolStep ==
    /\ blocks' = blocks
    /\ EffectIndex(effects', "put") = 0
    /\ LET p == last_event'.peer_ip
       IN /\ stream_log'[p].store = blocks
          /\ effects'[EffectIndex(effects', "range")].block_hashes =
                 stream_log'[p].snapshot
          /\ Range(stream_log'[p].snapshot) =
                 {b.hash : b \in {c \in blocks :
                                      c.height >= stream_log'[p].start_height}}

\* C35 as stated: start_streaming_to_peer computes the snapshot range
\* before it inserts the peer in stream_peer_metadata, and no block is
\* committed between the two.
C35_SnapshotBeforeEnrolment ==
    [][EnrolStep =>
           /\ EffectIndex(effects', "range") < EffectIndex(effects', "insert")
           /\ NoCommitInEnrolStep]_vars

\* C35: start_streaming_to_peer inserts the peer in stream_peer_metadata
\* and then computes the snapshot range, in one step of the event loop; no
\* block is committed between the two, so the snapshot is the range of the
\* store the peer was enrolled with.
C35_EnrolmentThenSnapshotInOneStep ==
    [][EnrolStep =>
           /\ EffectIndex(effects', "insert") < EffectIndex(effects', "range")
           /\ NoCommitInEnrolStep]_vars

\* C35 witness: a peer has just been enrolled on a store of two blocks with
\* a start height that leaves one of them out of the snapshot.
C35_Witness ==
    /\ last_event.type = "JoinNext"
    /\ EffectIndex(effects, "insert") > 0
    /\ Cardinality(blocks) = 2
    /\ Len(stream_log[last_event.peer_ip].snapshot) = 1
    /\ Len(catchup_channel) = 1

C37_NotCatchingUpAtTarget ==
    (/\ catchup_height # NoHeight
     /\ ~is_empty(blocks)
     /\ last(blocks).height >= catchup_height) => ~need_catchup

\* The step called ask_for_catchup_blocks.
AskedForCatchupBlocks(step_effects) ==
    \E i \in 1 .. Len(step_effects) :
        step_effects[i].kind = "ask_for_catchup_blocks"

\* C38: ask_for_catchup_blocks is called only in a step that starts with
\* catchup_task = None, and a step that clears need_catchup leaves no
\* running task behind; a task is spawned only there, so a new task starts
\* only after the one before it was taken out of the field and aborted:
\* at most one task feeds the catch-up channel.
C38_OneCatchupTask ==
    [][/\ AskedForCatchupBlocks(effects') => catchup_task = "None"
       /\ (catchup_task # "Running" /\ catchup_task' = "Running") =>
              /\ AskedForCatchupBlocks(effects')
              /\ catchup_task = "None"
       /\ (need_catchup /\ ~need_catchup') => catchup_task' # "Running"]_vars

\* C38 witness: a task is spawned for the second time: blocks of an
\* earlier task were received, that task was taken and aborted at the
\* target, and the node was put back into catch-up.
C38_Witness ==
    /\ last_event.type = "NewPeer"
    /\ effects = <<[kind |-> "ask_for_catchup_blocks", spawned |-> TRUE]>>
    /\ catchup_task = "Running"
    /\ streamed
    /\ catchup_height # NoHeight

\* C40: with the steps of concurrent save_on_disk calls on the same file
\* interleaved in any way, every step leaves the target file absent as
\* before, with the content it had, or with the complete encoding of the
\* state one of the calls is saving; it never holds part of an encoding.
C40_TargetNeverPartial ==
    [][\/ File \notin DOMAIN disk /\ File \notin DOMAIN disk'
       \/ /\ File \in DOMAIN disk
          /\ File \in DOMAIN disk'
          /\ disk'[File] = disk[File]
       \/ /\ File \in DOMAIN disk'
          /\ \E c \in Callers :
                 /\ save_calls[c].pc # "idle"
                 /\ disk'[File] = encode(save_calls[c].store)]_vars

\* C40 witness: one call has renamed a complete encoding of several bytes
\* into place while another call, saving another state, has written only
\* part of its encoding to its own temporary file.
C40_Witness ==
    /\ last_event.type = "SaveRename"
    /\ last_event.ok
    /\ Len(disk[File]) > 1
    /\ disk[File] = encode(last_event.store)
    /\ \E d \in Callers :
           /\ save_calls[d].pc = "encode"
           /\ save_calls[d].store # last_event.store
           /\ Len(disk[save_calls[d].tmp]) >= 1
           /\ Len(disk[save_calls[d].tmp]) < Len(encode(save_calls[d].store))

\* The rows of the tables a block's handler writes that belong to the
\* block with the given hash.
RowsOfBlock(rows, hash) == {r \in rows : r.key[1] = hash}

\* C39: handle_processed_block is all-or-nothing: when the handler ends
\* with an error at any statement or conversion, the database holds the
\* rows it held before and no row of the block; and a transaction is sent
\* to websocket subscribers only by a handler whose database transaction
\* commits.
C39_IndexedBlockAllOrNothing ==
    [][last_event'.type = "NewBlock" =>
           /\ ~last_event'.ok =>
                  /\ db' = db
                  /\ RowsOfBlock(db', last_event'.hash) = {}
           /\ ws_sent' # ws_sent => last_event'.ok]_vars

\* C39, first half alone: a handler that ends with an error leaves the
\* database as it was, without any row of its block.
C39_RowsAllOrNothing ==
    [][(last_event'.type = "NewBlock" /\ ~last_event'.ok) =>
           /\ db' = db
           /\ RowsOfBlock(db', last_event'.hash) = {}]_vars

====
